---- MODULE Spec2Model ----
(***************************************************************************)
(* Damage smoothing engine and player registry of bf-portal-gameplay-utils *)
(* (src/unnamed/part_001, the full variant with registry, lifecycle        *)
(* handlers and the global tick).                                          *)
(*                                                                         *)
(* The host (the Portal runtime behind the `mod` namespace) is modelled by *)
(* the variables matchLive, valid, health and team.  The engine is         *)
(* modelled by one variable per module-level table of the source.  Every   *)
(* handler is a function from a world record (host health + engine tables  *)
(* + observation counters) to a world record, so that a handler can be     *)
(* run on the world the host has just changed (a hit, a DealDamage).       *)
(*                                                                         *)
(* Numbers: health points are integers.  Seconds are kept in tenths and    *)
(* the health factors in hundredths, so that Ceiling is computed exactly;  *)
(* normalized health is the pair <<num, den>> (<<0, 0>> is a non-finite    *)
(* value).                                                                 *)
(***************************************************************************)
EXTENDS Integers, Sequences, FiniteSets, TLC

(* ------------------------------ bounds -------------------------------- *)
\* host health points of a freshly deployed soldier
MaxHealth == 2
\* largest pendingAmount a victim may accumulate (guard of the hit event)
MaxPending == 2
\* the tick counter is kept modulo TickPeriods refresh periods
TickPeriods == 1
\* handle generations the host issues per player id
MaxGen == 2
\* harness of the duration function: distances 0..MaxDist, health in HDen-ths
MaxDist == 30
HDen == 10

\* harness of the throttle functions: tick rates, intervals and batch sizes
\* in Halves-ths up to MaxRate, MaxInterval and MaxBatch; tick loops of
\* MaxTicks ticks; tick counts up to MaxCount; lists of up to MaxItems
\* items; MaxCalls chained slices
Halves == 2
MaxRate == 31
MaxTicks == 64
MaxInterval == 6
MaxCount == 12
MaxItems == 5
MaxBatch == 7
MaxCalls == 3
\* calls of the batched caller followed from one cursor
MaxCoverCalls == 7

\* harness of the drain variants: pending amounts in Halves-ths of a health
\* point up to MaxRemaining points, windows of up to MaxSpread ticks
MaxRemaining == 6
MaxSpread == 6

Players == {1, 2}
\* the players that switch team in the runs explored
Switchers == {2}
\* the players whose handle is reissued, and those whose deploy event
\* arrives after the spawn, in the runs explored
Reissued == {1}
LateDeployers == {1}
NoPlayer == 0
\* the stored handle of an id that has no record
NoHandle == 0
Undef == -1
\* distances (metres) the host reports between victim and attacker
DistSet == {5, 30}

(* -------------------------- program constants -------------------------- *)
TICK_RATE == 30
DMG_SPREAD_CLOSE_MAX_DIST == 10
DMG_SPREAD_MID_MAX_DIST == 25
\* seconds, in tenths: 2.0, 1.8, 1.6
DMG_SPREAD_CLOSE_SEC == 20
DMG_SPREAD_MID_SEC == 18
DMG_SPREAD_FAR_SEC == 16
\* factors, in hundredths: 0.45, 1.0
DMG_SPREAD_HEALTH_DELAY_MIN_FACTOR == 45
DMG_SPREAD_HEALTH_DELAY_MAX_FACTOR == 100
HEALTH_CACHE_UPDATE_EVERY_N_TICKS == 2
\* distance reported when a soldier position is not available
DIST_UNKNOWN == 99999

VARIABLES
  \* host
  matchLive, valid, health, team, handle,
  \* registry
  serverPlayers, isDeployed, spPlayer,
  \* engine tables
  dmgLastHealth, dmgQueued, dmgQueuedTicksLeft, dmgQueuedGiverObjId,
  dmgActive, dmgActiveIds, dmgIsReapplying, gTickCounter,
  \* position inside OngoingGlobal / dmgSpreadProcessQueueTick
  pc, i, cur, step, giver,
  \* observation: per victim, the sum of the amounts passed to mod.Heal minus
  \* the sum of the amounts passed to mod.DealDamage since its queue was last
  \* cleared; and the last handler that changed the world, with the branch
  \* it took
  owed, lastOp,
  \* harness for the pure functions
  fn

hostVars == <<matchLive, valid, team, handle>>
ctlVars == <<pc, i, cur, step, giver>>
worldVars == <<health, serverPlayers, isDeployed, spPlayer, dmgLastHealth, dmgQueued,
               dmgQueuedTicksLeft, dmgQueuedGiverObjId, dmgActive,
               dmgActiveIds, dmgIsReapplying, owed, lastOp>>
vars == <<matchLive, valid, health, team, handle, serverPlayers, isDeployed, spPlayer,
          dmgLastHealth, dmgQueued, dmgQueuedTicksLeft, dmgQueuedGiverObjId,
          dmgActive, dmgActiveIds, dmgIsReapplying, gTickCounter,
          pc, i, cur, step, giver, owed, lastOp, fn>>

(* ------------------------------ arithmetic ----------------------------- *)
\* mod.Ceiling(a / b) for a >= 0, b > 0
CeilDiv(a, b) == (a + b - 1) \div b

Min2(a, b) == IF a < b THEN a ELSE b

Max2(a, b) == IF a > b THEN a ELSE b

(* ------------------------------ host queries --------------------------- *)
\* mutant: the match always counts as live
isMatchLive_always == TRUE

isMatchLive == matchLive

IsPlayerValid(p) == p # NoPlayer /\ valid[p]

\* GetSoldierState(IsAlive) on the health table hl
isPlayerAlive(hl, p) == hl[p] > 0

\* mod.GetObjId: the host object id of a player handle (never 0 here)
GetObjId(p) == 10 + p

\* the world the handlers run on
World ==
  [ health |-> health, serverPlayers |-> serverPlayers, isDeployed |-> isDeployed,
    spPlayer |-> spPlayer,
    dmgLastHealth |-> dmgLastHealth, dmgQueued |-> dmgQueued,
    dmgQueuedTicksLeft |-> dmgQueuedTicksLeft,
    dmgQueuedGiverObjId |-> dmgQueuedGiverObjId, dmgActive |-> dmgActive,
    dmgActiveIds |-> dmgActiveIds, dmgIsReapplying |-> dmgIsReapplying,
    owed |-> owed, lastOp |-> lastOp ]

Commit(w) ==
  /\ health' = w.health
  /\ serverPlayers' = w.serverPlayers
  /\ isDeployed' = w.isDeployed
  /\ spPlayer' = w.spPlayer
  /\ dmgLastHealth' = w.dmgLastHealth
  /\ dmgQueued' = w.dmgQueued
  /\ dmgQueuedTicksLeft' = w.dmgQueuedTicksLeft
  /\ dmgQueuedGiverObjId' = w.dmgQueuedGiverObjId
  /\ dmgActive' = w.dmgActive
  /\ dmgActiveIds' = w.dmgActiveIds
  /\ dmgIsReapplying' = w.dmgIsReapplying
  /\ owed' = w.owed
  /\ lastOp' = IF [w EXCEPT !.lastOp = lastOp] = World THEN lastOp ELSE w.lastOp

Op(name, id, br) == [op |-> name, id |-> id, br |-> br]


(* ------------------------------ registry ------------------------------- *)
\* mod.IsPlayerValid(sp.player): the handle stored in the record of id is
\* the current handle of a player the host still has
StoredValid(w, id) == valid[id] /\ w.spPlayer[id] = handle[id]

\* a handle of player id p is the pair of p and a generation number; the
\* record of p stores the generation, and the handle the host passes to a
\* handler for p is the current one, handle[p]
getOrCreateServerPlayer_keepsHandle(w, p) ==
  IF p \in w.serverPlayers THEN w
  ELSE [w EXCEPT !.serverPlayers = @ \cup {p},
                 !.isDeployed[p] = FALSE,
                 !.spPlayer[p] = handle[p],
                 !.dmgLastHealth[p] = w.health[p],
                 !.dmgQueued[p] = 0,
                 !.dmgQueuedTicksLeft[p] = 0,
                 !.dmgQueuedGiverObjId[p] = 0,
                 !.dmgActive[p] = FALSE,
                 !.dmgIsReapplying[p] = FALSE]

\* getOrCreateServerPlayer(p): a new record is undeployed and its caches are
\* seeded; an existing record only has its handle refreshed
getOrCreateServerPlayer(w, p) ==
  IF p \in w.serverPlayers THEN [w EXCEPT !.spPlayer[p] = handle[p]]
  ELSE [w EXCEPT !.serverPlayers = @ \cup {p},
                 !.isDeployed[p] = FALSE,
                 !.spPlayer[p] = handle[p],
                 !.dmgLastHealth[p] = w.health[p],
                 !.dmgQueued[p] = 0,
                 !.dmgQueuedTicksLeft[p] = 0,
                 !.dmgQueuedGiverObjId[p] = 0,
                 !.dmgActive[p] = FALSE,
                 !.dmgIsReapplying[p] = FALSE]

\* findServerPlayerByObjId: the tracked player with a valid handle and that
\* host object id, NoPlayer when there is none
findServerPlayerByObjId(w, objId) ==
  LET hits == {p \in w.serverPlayers : StoredValid(w, p) /\ GetObjId(p) = objId}
  IN IF hits = {} THEN NoPlayer ELSE CHOOSE p \in hits : TRUE

(* --------------------------- smoothing helpers ------------------------- *)
\* normalized health of p: current health over the full health
dmgGetNormalizedHealth(hl, p) == <<hl[p], MaxHealth>>

dmgSpreadApplyHealthDelayScale(baseTicks, normalizedHealth) ==
  LET finite == normalizedHealth[2] # 0
      den == IF finite THEN normalizedHealth[2] ELSE 1
      h0 == IF finite THEN normalizedHealth[1] ELSE 1
      h1 == IF h0 < 0 THEN 0 ELSE h0
      h == IF h1 > den THEN den ELSE h1
      \* factor = MIN + (MAX - MIN) * h, as a fraction over 100 * den
      factorNum == DMG_SPREAD_HEALTH_DELAY_MIN_FACTOR * den
                   + (DMG_SPREAD_HEALTH_DELAY_MAX_FACTOR
                      - DMG_SPREAD_HEALTH_DELAY_MIN_FACTOR) * h
      scaled == CeilDiv(baseTicks * factorNum, 100 * den)
  IN IF scaled < 1 THEN 1 ELSE scaled

\* mutant: the id is pushed without looking at the flag
dmgMarkActive_noTest(w, id) ==
  [w EXCEPT !.dmgActive[id] = TRUE,
            !.dmgActiveIds = Append(@, id)]

dmgMarkActive(w, id) ==
  IF w.dmgActive[id] THEN w
  ELSE [w EXCEPT !.dmgActive[id] = TRUE,
                 !.dmgActiveIds = Append(@, id)]

\* Array.indexOf: first index holding id, 0 when absent
IndexOf(s, id) ==
  IF \E k \in 1..Len(s) : s[k] = id
  THEN CHOOSE k \in 1..Len(s) : s[k] = id /\ \A j \in 1..(k-1) : s[j] # id
  ELSE 0

\* mutant: the first entry is removed, whatever the index found
Splice_first(s, idx) == SubSeq(s, 2, Len(s))

\* Array.splice(idx, 1)
Splice(s, idx) == SubSeq(s, 1, idx - 1) \o SubSeq(s, idx + 1, Len(s))

dmgUnmarkActive(w, id) ==
  IF ~w.dmgActive[id] THEN w
  ELSE LET idx == IndexOf(w.dmgActiveIds, id)
       IN [w EXCEPT !.dmgActive[id] = FALSE,
                    !.dmgActiveIds = IF idx >= 1 THEN Splice(@, idx) ELSE @]

\* sec is in tenths of a second
dmgSpreadSecondsToTicks(sec) ==
  LET raw == CeilDiv(sec * TICK_RATE, 10)
  IN IF raw < 1 THEN 1 ELSE raw

\* dist is what mod.DistanceBetween reports when both soldiers are alive
dmgSpreadDistanceMeters(hl, victim, attacker, dist) ==
  IF ~IsPlayerValid(attacker) THEN DIST_UNKNOWN
  ELSE IF ~isPlayerAlive(hl, victim) THEN DIST_UNKNOWN
  ELSE IF ~isPlayerAlive(hl, attacker) THEN DIST_UNKNOWN
  ELSE dist

\* mutant: the bucket limits are exclusive
dmgSpreadPickTicks_exclusive(distanceMeters) ==
  IF distanceMeters < DMG_SPREAD_CLOSE_MAX_DIST
  THEN dmgSpreadSecondsToTicks(DMG_SPREAD_CLOSE_SEC)
  ELSE IF distanceMeters < DMG_SPREAD_MID_MAX_DIST
  THEN dmgSpreadSecondsToTicks(DMG_SPREAD_MID_SEC)
  ELSE dmgSpreadSecondsToTicks(DMG_SPREAD_FAR_SEC)

dmgSpreadPickTicks(distanceMeters) ==
  IF distanceMeters <= DMG_SPREAD_CLOSE_MAX_DIST
  THEN dmgSpreadSecondsToTicks(DMG_SPREAD_CLOSE_SEC)
  ELSE IF distanceMeters <= DMG_SPREAD_MID_MAX_DIST
  THEN dmgSpreadSecondsToTicks(DMG_SPREAD_MID_SEC)
  ELSE dmgSpreadSecondsToTicks(DMG_SPREAD_FAR_SEC)

\* mod.Heal(p, amount): the host caps health at the full health
Heal(w, p, amount) ==
  [w EXCEPT !.health[p] = Min2(MaxHealth, @ + amount),
            !.owed[p] = @ + amount]

(* ------------------------------ handlers ------------------------------- *)
OngoingPlayer(w, p) ==
  IF ~IsPlayerValid(p) THEN [w EXCEPT !.lastOp = Op("OngoingPlayer", p, "invalid")]
  ELSE [getOrCreateServerPlayer(w, p) EXCEPT
          !.lastOp = Op("OngoingPlayer", p,
                        IF p \in w.serverPlayers THEN "existing" ELSE "created")]

\* mutant: the queue is cleared but the attacker of the last hit is kept
ClearQueue_keepsGiver(w, id) ==
  [w EXCEPT !.dmgQueued[id] = 0,
            !.dmgQueuedTicksLeft[id] = 0,
            !.owed[id] = 0]

\* the three queue fields zeroed, as the lifecycle handlers and the drain do
\* (the observation starts again with the queue)
ClearQueue(w, id) ==
  [w EXCEPT !.dmgQueued[id] = 0,
            !.dmgQueuedTicksLeft[id] = 0,
            !.dmgQueuedGiverObjId[id] = 0,
            !.owed[id] = 0]

OnPlayerDeployed(w, p) ==
  IF ~IsPlayerValid(p) THEN [w EXCEPT !.lastOp = Op("OnPlayerDeployed", p, "invalid")]
  ELSE LET w1 == getOrCreateServerPlayer(w, p)
           w2 == [w1 EXCEPT !.isDeployed[p] = TRUE,
                            !.dmgLastHealth[p] = w.health[p]]
           w3 == dmgUnmarkActive(ClearQueue(w2, p), p)
       IN [w3 EXCEPT !.lastOp = Op("OnPlayerDeployed", p, "reset")]

OnPlayerDied(w, p) ==
  IF ~IsPlayerValid(p) THEN [w EXCEPT !.lastOp = Op("OnPlayerDied", p, "invalid")]
  ELSE LET w1 == getOrCreateServerPlayer(w, p)
           w2 == [w1 EXCEPT !.isDeployed[p] = FALSE]
           w3 == dmgUnmarkActive(ClearQueue(w2, p), p)
       IN [w3 EXCEPT !.lastOp = Op("OnPlayerDied", p, "reset")]

\* mutant: a baseline-refresh return also clears the tick count
Refresh_clearsTicks(w, id, br) ==
  [w EXCEPT !.dmgLastHealth[id] = w.health[id],
            !.dmgQueuedTicksLeft[id] = 0,
            !.lastOp = Op("OnPlayerDamaged", id, br)]

\* the baseline-refresh returns of OnPlayerDamaged
Refresh(w, id, br) ==
  [w EXCEPT !.dmgLastHealth[id] = w.health[id],
            !.lastOp = Op("OnPlayerDamaged", id, br)]

\* mutant: the baseline is refreshed to the health reported with the hit
UndoBurst_rebaselines(w, victim, prev, delta) ==
  [Heal(w, victim, delta) EXCEPT !.dmgLastHealth[victim] = w.health[victim]]

\* lines 356-359: the burst is undone and the baseline stays the pre-hit one
UndoBurst(w, victim, prev, delta) ==
  [Heal(w, victim, delta) EXCEPT !.dmgLastHealth[victim] = prev]

\* mutant: the duration of the new hit is added to the ticks left
Enqueue_addsTicks(w, victim, attacker, delta, spreadTicks) ==
  dmgMarkActive([w EXCEPT !.dmgQueued[victim] = @ + delta,
                          !.dmgQueuedTicksLeft[victim] = @ + spreadTicks,
                          !.dmgQueuedGiverObjId[victim] = GetObjId(attacker)],
                victim)

\* mutant: the new hit replaces the pending amount
Enqueue_replaces(w, victim, attacker, delta, spreadTicks) ==
  dmgMarkActive([w EXCEPT !.dmgQueued[victim] = delta,
                          !.dmgQueuedTicksLeft[victim] = spreadTicks,
                          !.dmgQueuedGiverObjId[victim] = GetObjId(attacker)],
                victim)

\* lines 366-370: the damage is queued and the victim marked active
Enqueue(w, victim, attacker, delta, spreadTicks) ==
  dmgMarkActive([w EXCEPT !.dmgQueued[victim] = @ + delta,
                          !.dmgQueuedTicksLeft[victim] = spreadTicks,
                          !.dmgQueuedGiverObjId[victim] = GetObjId(attacker)],
                victim)

\* lines 343-370: the interception of an enemy hit
Intercept(w, victim, attacker, dist) ==
  LET prev == w.dmgLastHealth[victim]
      delta == prev - w.health[victim]
      w2 == UndoBurst(w, victim, prev, delta)
      d == dmgSpreadDistanceMeters(w2.health, victim, attacker, dist)
      baseTicks == dmgSpreadPickTicks(d)
      spreadTicks == dmgSpreadApplyHealthDelayScale(
                       baseTicks, dmgGetNormalizedHealth(w2.health, victim))
  IN [Enqueue(w2, victim, attacker, delta, spreadTicks) EXCEPT
        !.lastOp = Op("OnPlayerDamaged", victim, "queued")]

\* mutant: the guard is never looked at
IsReapplying_never(w, id) == FALSE

\* line 327: the call is the engine's own re-applied damage
IsReapplying(w, id) == w.dmgIsReapplying[id]

\* line 333: no attacker, or self-inflicted damage
InvalidOrSelf(victim, attacker) == ~IsPlayerValid(attacker) \/ victim = attacker

\* mutant: the team check is missing
SameTeam_never(victim, attacker) == FALSE

\* line 338: friendly fire
SameTeam(victim, attacker) == team[victim] = team[attacker]

\* OnPlayerDamaged(eventPlayer, eventOtherPlayer): w.health already holds
\* the hit the host has applied
OnPlayerDamaged(w, victim, attacker, dist) ==
  IF ~isMatchLive THEN [w EXCEPT !.lastOp = Op("OnPlayerDamaged", victim, "notLive")]
  ELSE IF ~IsPlayerValid(victim)
  THEN [w EXCEPT !.lastOp = Op("OnPlayerDamaged", victim, "invalid")]
  ELSE IF ~isPlayerAlive(w.health, victim)
  THEN [w EXCEPT !.lastOp = Op("OnPlayerDamaged", victim, "dead")]
  ELSE LET w1 == getOrCreateServerPlayer(w, victim) IN
  IF ~w1.isDeployed[victim]
  THEN [w1 EXCEPT !.lastOp = Op("OnPlayerDamaged", victim, "undeployed")]
  ELSE IF IsReapplying(w1, victim) THEN Refresh(w1, victim, "guard")
  ELSE IF InvalidOrSelf(victim, attacker) THEN Refresh(w1, victim, "selfOrInvalid")
  ELSE IF SameTeam(victim, attacker) THEN Refresh(w1, victim, "sameTeam")
  ELSE IF w1.dmgLastHealth[victim] = Undef THEN Refresh(w1, victim, "noBaseline")
  ELSE IF w1.dmgLastHealth[victim] - w1.health[victim] <= 0
  THEN Refresh(w1, victim, "noDelta")
  ELSE Intercept(w1, victim, attacker, dist)


(* ------------------------------ tick functions ------------------------- *)
\* mutant: the pass also refreshes the baseline of dead soldiers
dmgSpreadUpdateHealthCacheTick_ignoresAlive(w) ==
  IF ~isMatchLive THEN w
  ELSE [w EXCEPT !.dmgLastHealth =
          [p \in Players |->
             IF p \in w.serverPlayers /\ w.isDeployed[p] /\ StoredValid(w, p)
             THEN w.health[p] ELSE @[p]]]

dmgSpreadUpdateHealthCacheTick(w) ==
  IF ~isMatchLive THEN w
  ELSE [w EXCEPT !.dmgLastHealth =
          [p \in Players |->
             IF p \in w.serverPlayers /\ w.isDeployed[p] /\ StoredValid(w, p)
                /\ isPlayerAlive(w.health, p)
             THEN w.health[p] ELSE @[p]]]

\* lines 236-238: the amount one drain tick re-applies
DrainStepAmount(remaining, ticksLeft) ==
  LET s0 == CeilDiv(remaining, ticksLeft)
      s1 == IF s0 < 1 THEN 1 ELSE s0
  IN IF s1 > remaining THEN remaining ELSE s1

\* mutant: the step is never credited to anybody
DrainGiver_none(w, id) == NoPlayer

\* lines 240-245: the attacker the step is credited to, NoPlayer for none
DrainGiver(w, id) ==
  LET giverSp == IF w.dmgQueuedGiverObjId[id] # 0
                 THEN findServerPlayerByObjId(w, w.dmgQueuedGiverObjId[id])
                 ELSE NoPlayer
  IN IF giverSp # NoPlayer /\ StoredValid(w, giverSp) THEN giverSp ELSE NoPlayer

\* mutant: a dead soldier still counts as in play
Ineligible_ignoresAlive(w, id) ==
  \/ id \notin w.serverPlayers
  \/ ~w.isDeployed[id]
  \/ ~StoredValid(w, id)

\* line 220: the player of an active id has left play
Ineligible(w, id) ==
  \/ id \notin w.serverPlayers
  \/ ~w.isDeployed[id]
  \/ ~StoredValid(w, id)
  \/ ~isPlayerAlive(w.health, id)

\* lines 231 and 255: nothing is left to drain
Exhausted(remaining, ticksLeft) == remaining <= 0 \/ ticksLeft <= 0

\* mutant: the forced reset leaves the tick count
ForceReset_keepsTicks(w, id) ==
  [dmgUnmarkActive([w EXCEPT !.dmgQueued[id] = 0,
                             !.dmgQueuedGiverObjId[id] = 0,
                             !.owed[id] = 0], id) EXCEPT
     !.lastOp = Op("drain", id, "reset")]

\* lines 220-226: the forced reset of an entry whose player left play
ForceReset(w, id) ==
  [dmgUnmarkActive(ClearQueue(w, id), id) EXCEPT
     !.lastOp = Op("drain", id, "reset")]

\* lines 231-234: an active entry that is already drained
DropExhausted(w, id) ==
  [dmgUnmarkActive(w, id) EXCEPT !.lastOp = Op("drain", id, "exhausted")]

\* lines 244-249: guard set and mod.DealDamage called; the host takes the
\* amount from the victim's health before it calls back
BeginDeal(w, id, amount) ==
  [w EXCEPT !.dmgIsReapplying[id] = TRUE,
            !.health[id] = Max2(0, @ - amount),
            !.owed[id] = @ - amount,
            !.lastOp = Op("drain", id, "deal")]

\* mutant: the step is not taken off the pending amount
EndDeal_keepsQueued(w, id, amount) ==
  LET w1 == [w EXCEPT !.dmgIsReapplying[id] = FALSE,
                      !.dmgQueuedTicksLeft[id] = @ - 1]
      w2 == IF Exhausted(w1.dmgQueued[id], w1.dmgQueuedTicksLeft[id])
            THEN dmgUnmarkActive(w1, id) ELSE w1
  IN [w2 EXCEPT !.lastOp = Op("drain", id, "returned")]

\* mutant: the tick count is not decremented
EndDeal_ticksStuck(w, id, amount) ==
  LET w1 == [w EXCEPT !.dmgIsReapplying[id] = FALSE,
                      !.dmgQueued[id] = @ - amount]
      w2 == IF Exhausted(w1.dmgQueued[id], w1.dmgQueuedTicksLeft[id])
            THEN dmgUnmarkActive(w1, id) ELSE w1
  IN [w2 EXCEPT !.lastOp = Op("drain", id, "returned")]

\* mutant: the drained entry is not deactivated
EndDeal_staysActive(w, id, amount) ==
  [w EXCEPT !.dmgIsReapplying[id] = FALSE,
            !.dmgQueued[id] = @ - amount,
            !.dmgQueuedTicksLeft[id] = @ - 1,
            !.lastOp = Op("drain", id, "returned")]

\* mutant: the guard is left set when mod.DealDamage has returned
EndDeal_keepsGuard(w, id, amount) ==
  LET w1 == [w EXCEPT !.dmgQueued[id] = @ - amount,
                      !.dmgQueuedTicksLeft[id] = @ - 1]
      w2 == IF Exhausted(w1.dmgQueued[id], w1.dmgQueuedTicksLeft[id])
            THEN dmgUnmarkActive(w1, id) ELSE w1
  IN [w2 EXCEPT !.lastOp = Op("drain", id, "returned")]

\* lines 250-257: after mod.DealDamage has returned
EndDeal(w, id, amount) ==
  LET w1 == [w EXCEPT !.dmgIsReapplying[id] = FALSE,
                      !.dmgQueued[id] = @ - amount,
                      !.dmgQueuedTicksLeft[id] = @ - 1]
      w2 == IF Exhausted(w1.dmgQueued[id], w1.dmgQueuedTicksLeft[id])
            THEN dmgUnmarkActive(w1, id) ELSE w1
  IN [w2 EXCEPT !.lastOp = Op("drain", id, "returned")]

\* mutant: the refresh runs on every tick
CacheTickDue_always == TRUE

\* line 384: the refresh runs on this tick
CacheTickDue ==
  HEALTH_CACHE_UPDATE_EVERY_N_TICKS <= 1
  \/ gTickCounter % HEALTH_CACHE_UPDATE_EVERY_N_TICKS = 0

TickWrap == HEALTH_CACHE_UPDATE_EVERY_N_TICKS * TickPeriods

(* ------------------------------ state machine -------------------------- *)
HostOp == Op("host", NoPlayer, "-")

NoFn == [k |-> "none"]


InitWorld ==
  /\ matchLive = FALSE
  /\ valid = [p \in Players |-> TRUE]
  /\ health = [p \in Players |-> 0]
  /\ team = [p \in Players |-> p]
  /\ handle = [p \in Players |-> 1]
  /\ serverPlayers = {}
  /\ isDeployed = [p \in Players |-> FALSE]
  /\ spPlayer = [p \in Players |-> NoHandle]
  /\ dmgLastHealth = [p \in Players |-> Undef]
  /\ dmgQueued = [p \in Players |-> 0]
  /\ dmgQueuedTicksLeft = [p \in Players |-> 0]
  /\ dmgQueuedGiverObjId = [p \in Players |-> 0]
  /\ dmgActive = [p \in Players |-> FALSE]
  /\ dmgActiveIds = <<>>
  /\ dmgIsReapplying = [p \in Players |-> FALSE]
  /\ gTickCounter = 0
  /\ pc = "idle"
  /\ i = 0
  /\ cur = NoPlayer
  /\ step = 0
  /\ giver = NoPlayer
  /\ owed = [p \in Players |-> 0]
  /\ lastOp = HostOp

Init == InitWorld /\ fn = NoFn

\* the match goes live, or stops being live
HostSetLive ==
  /\ pc = "idle"
  /\ matchLive' = ~matchLive
  /\ lastOp' = HostOp
  /\ UNCHANGED <<valid, team, handle, health, serverPlayers, isDeployed, spPlayer, dmgLastHealth,
                 dmgQueued, dmgQueuedTicksLeft, dmgQueuedGiverObjId, dmgActive,
                 dmgActiveIds, dmgIsReapplying, gTickCounter, ctlVars,
                 owed, fn>>

\* the host invalidates a player's handle (the player leaves and its
\* soldier is removed), or the player is back, without a soldier yet
HostSetValid(p) ==
  /\ pc = "idle"
  /\ valid' = [valid EXCEPT ![p] = ~@]
  /\ health' = [health EXCEPT ![p] = 0]
  /\ lastOp' = HostOp
  /\ UNCHANGED <<matchLive, team, handle, serverPlayers, isDeployed, spPlayer, dmgLastHealth,
                 dmgQueued, dmgQueuedTicksLeft, dmgQueuedGiverObjId, dmgActive,
                 dmgActiveIds, dmgIsReapplying, gTickCounter, ctlVars,
                 owed, fn>>

\* a player switches to the other team
HostSwitchTeam(p) ==
  /\ pc = "idle"
  /\ team' = [team EXCEPT ![p] = 3 - @]
  /\ lastOp' = HostOp
  /\ UNCHANGED <<matchLive, valid, handle, health, serverPlayers, isDeployed, spPlayer, dmgLastHealth,
                 dmgQueued, dmgQueuedTicksLeft, dmgQueuedGiverObjId, dmgActive,
                 dmgActiveIds, dmgIsReapplying, gTickCounter, ctlVars,
                 owed, fn>>

\* health the engine does not see as a damage event (regeneration)
HostRegen(p) ==
  /\ pc = "idle"
  /\ health[p] > 0 /\ health[p] < MaxHealth
  /\ health' = [health EXCEPT ![p] = @ + 1]
  /\ lastOp' = HostOp
  /\ UNCHANGED <<hostVars, serverPlayers, isDeployed, spPlayer, dmgLastHealth,
                 dmgQueued, dmgQueuedTicksLeft, dmgQueuedGiverObjId, dmgActive,
                 dmgActiveIds, dmgIsReapplying, gTickCounter, ctlVars,
                 owed, fn>>

OngoingPlayerEvt(p) ==
  /\ pc = "idle"
  /\ Commit(OngoingPlayer(World, p))
  /\ UNCHANGED <<hostVars, gTickCounter, ctlVars, fn>>

\* the host spawns p at full health and delivers the deploy event
Deploy(p) ==
  /\ pc = "idle"
  /\ valid[p] /\ health[p] = 0
  /\ Commit(OnPlayerDeployed([World EXCEPT !.health[p] = MaxHealth], p))
  /\ UNCHANGED <<hostVars, gTickCounter, ctlVars, fn>>

\* the host delivers the death event of a dead soldier
Died(p) ==
  /\ pc = "idle"
  /\ health[p] = 0
  /\ Commit(OnPlayerDied(World, p))
  /\ UNCHANGED <<hostVars, gTickCounter, ctlVars, fn>>

\* the distances that can make a difference to a hit: all of them when the
\* hit is intercepted, one otherwise
HitDistances(v, a, amt) ==
  IF amt <= health[v]
     /\ OnPlayerDamaged([World EXCEPT !.health[v] = @ - amt], v, a,
                        CHOOSE d \in DistSet : TRUE).lastOp.br = "queued"
  THEN DistSet ELSE {CHOOSE d \in DistSet : TRUE}

\* the host takes amt from the victim's health and delivers the damage
\* event; the hit is not delivered when it would push the queue beyond the
\* bound of the model
Hit(v, a, amt, dist) ==
  /\ pc = "idle"
  /\ amt <= health[v]
  /\ LET w == OnPlayerDamaged([World EXCEPT !.health[v] = @ - amt], v, a, dist)
     IN /\ w.dmgQueued[v] <= MaxPending
        /\ Commit(w)
  /\ UNCHANGED <<hostVars, gTickCounter, ctlVars, fn>>

\* OngoingGlobal up to the first active id of the drain; with nothing to
\* drain the whole handler runs here
TickBegin ==
  /\ pc = "idle"
  /\ gTickCounter' = (gTickCounter + 1) % TickWrap
  /\ IF ~isMatchLive \/ Len(dmgActiveIds) = 0
     THEN /\ Commit([(IF HEALTH_CACHE_UPDATE_EVERY_N_TICKS <= 1
                         \/ gTickCounter' % HEALTH_CACHE_UPDATE_EVERY_N_TICKS = 0
                      THEN dmgSpreadUpdateHealthCacheTick(World) ELSE World)
                     EXCEPT !.lastOp = Op("OngoingGlobal", NoPlayer, "done")])
          /\ UNCHANGED ctlVars
     ELSE /\ pc' = "drain"
          /\ i' = Len(dmgActiveIds)
          /\ Commit([World EXCEPT !.lastOp = Op("OngoingGlobal", NoPlayer, "begin")])
          /\ UNCHANGED <<cur, step, giver>>
  /\ UNCHANGED <<hostVars, fn>>

\* one iteration of the loop of dmgSpreadProcessQueueTick, up to the call
\* of mod.DealDamage
DrainIterate ==
  /\ pc = "drain"
  /\ i >= 1
  /\ LET id == IF i <= Len(dmgActiveIds) THEN dmgActiveIds[i] ELSE NoPlayer
     IN IF id = NoPlayer
        THEN /\ Commit([World EXCEPT !.lastOp = Op("drain", NoPlayer, "hole")])
             /\ i' = i - 1
             /\ UNCHANGED <<pc, cur, step, giver>>
        ELSE IF Ineligible(World, id)
        THEN /\ Commit(ForceReset(World, id))
             /\ i' = i - 1
             /\ UNCHANGED <<pc, cur, step, giver>>
        ELSE IF Exhausted(dmgQueued[id], dmgQueuedTicksLeft[id])
        THEN /\ Commit(DropExhausted(World, id))
             /\ i' = i - 1
             /\ UNCHANGED <<pc, cur, step, giver>>
        ELSE /\ step' = DrainStepAmount(dmgQueued[id], dmgQueuedTicksLeft[id])
             /\ cur' = id
             /\ giver' = DrainGiver(World, id)
             /\ pc' = "dealing"
             /\ Commit(BeginDeal(World, id, step'))
             /\ UNCHANGED i
  /\ UNCHANGED <<hostVars, gTickCounter, fn>>

\* the host reports the engine's own damage while mod.DealDamage runs, with
\* the credited attacker the call was given
NestedDamaged ==
  /\ pc = "dealing"
  /\ Commit(OnPlayerDamaged(World, cur, giver, CHOOSE d \in DistSet : TRUE))
  /\ UNCHANGED <<hostVars, gTickCounter, ctlVars, fn>>

\* the step killed the victim and the host delivers the death event from
\* inside mod.DealDamage
NestedDied ==
  /\ pc = "dealing"
  /\ health[cur] = 0
  /\ Commit(OnPlayerDied(World, cur))
  /\ UNCHANGED <<hostVars, gTickCounter, ctlVars, fn>>

\* mod.DealDamage returns: the rest of the loop body
DealReturn ==
  /\ pc = "dealing"
  /\ Commit(EndDeal(World, cur, step))
  /\ pc' = "drain"
  /\ i' = i - 1
  /\ cur' = NoPlayer
  /\ step' = 0
  /\ giver' = NoPlayer
  /\ UNCHANGED <<hostVars, gTickCounter, fn>>

\* the loop is over: the throttled cache refresh, and OngoingGlobal returns
TickEnd ==
  /\ pc = "drain"
  /\ i = 0
  /\ Commit([(IF CacheTickDue THEN dmgSpreadUpdateHealthCacheTick(World) ELSE World)
             EXCEPT !.lastOp = Op("OngoingGlobal", NoPlayer, "done")])
  /\ pc' = "idle"
  /\ UNCHANGED <<hostVars, gTickCounter, i, cur, step, giver, fn>>

Next ==
  \/ HostSetLive
  \/ \E p \in Players : HostSetValid(p)
  \/ \E p \in Players : HostRegen(p)
  \/ \E p \in Players : OngoingPlayerEvt(p)
  \/ \E p \in Players : Deploy(p)
  \/ \E p \in Players : Died(p)
  \/ \E v \in Players, a \in Players \cup {NoPlayer}, amt \in 1..MaxHealth :
        \E dist \in HitDistances(v, a, amt) : Hit(v, a, amt, dist)
  \/ TickBegin
  \/ DrainIterate
  \/ NestedDamaged
  \/ NestedDied
  \/ DealReturn
  \/ TickEnd

Spec == Init /\ [][Next]_vars

\* the same system with players that switch team during the match
NextTeams ==
  \/ Next
  \/ \E p \in Switchers : HostSwitchTeam(p)

SpecTeams == Init /\ [][NextTeams]_vars


(* ---------- a host that reissues handles and reports deploys late ------- *)
\* the host reissues the handle of a player; the identity stays the same
HostReissue(p) ==
  /\ pc = "idle"
  /\ handle[p] < MaxGen
  /\ handle' = [handle EXCEPT ![p] = @ + 1]
  /\ lastOp' = HostOp
  /\ UNCHANGED <<matchLive, valid, team, health, serverPlayers, isDeployed,
                 spPlayer, dmgLastHealth, dmgQueued, dmgQueuedTicksLeft,
                 dmgQueuedGiverObjId, dmgActive, dmgActiveIds, dmgIsReapplying,
                 gTickCounter, ctlVars, owed, fn>>

\* the host spawns the soldier of p; the deploy event has not arrived yet
HostSpawn(p) ==
  /\ pc = "idle"
  /\ valid[p] /\ health[p] = 0
  /\ health' = [health EXCEPT ![p] = MaxHealth]
  /\ lastOp' = HostOp
  /\ UNCHANGED <<hostVars, serverPlayers, isDeployed, spPlayer, dmgLastHealth,
                 dmgQueued, dmgQueuedTicksLeft, dmgQueuedGiverObjId, dmgActive,
                 dmgActiveIds, dmgIsReapplying, gTickCounter, ctlVars,
                 owed, fn>>

\* the deploy event of a soldier spawned earlier
DeployedEvt(p) ==
  /\ pc = "idle"
  /\ valid[p] /\ health[p] > 0 /\ ~isDeployed[p]
  /\ Commit(OnPlayerDeployed(World, p))
  /\ UNCHANGED <<hostVars, gTickCounter, ctlVars, fn>>

\* a damage event whose victim the host has already removed
HitStale(v, a) ==
  /\ pc = "idle"
  /\ ~valid[v]
  /\ Commit(OnPlayerDamaged(World, v, a, CHOOSE d \in DistSet : TRUE))
  /\ UNCHANGED <<hostVars, gTickCounter, ctlVars, fn>>

\* team switches, and events that arrive late: the deploy event after the
\* spawn, a damage event after the victim has gone
NextLate ==
  \/ NextTeams
  \/ \E v \in Players, a \in Players \cup {NoPlayer} : HitStale(v, a)
  \/ \E p \in LateDeployers : HostSpawn(p)
  \/ \E p \in LateDeployers : DeployedEvt(p)

SpecLate == Init /\ [][NextLate]_vars

\* spawns reported late and reissued handles
NextHost ==
  \/ Next
  \/ \E p \in LateDeployers : HostSpawn(p)
  \/ \E p \in LateDeployers : DeployedEvt(p)
  \/ \E p \in Reissued : HostReissue(p)

SpecHost == Init /\ [][NextHost]_vars

(* --------------------- harness: the duration function ------------------ *)
\* normalized health values: below 0, 0..1 in HDen-ths, above 1, non-finite
HInputs == {<<n, HDen>> : n \in (-2)..(HDen + 2)} \cup {<<0, 0>>}

InitDur ==
  /\ InitWorld
  /\ fn \in [k : {"dur"}, dist : 0..MaxDist, h : HInputs, ticks : {0}, done : {FALSE}]

\* lines 362-364 on the inputs drawn
ComputeDuration ==
  /\ fn.k = "dur"
  /\ ~fn.done
  /\ fn' = [fn EXCEPT !.ticks = dmgSpreadApplyHealthDelayScale(
                                  dmgSpreadPickTicks(fn.dist), fn.h),
                      !.done = TRUE]
  /\ UNCHANGED <<hostVars, worldVars, gTickCounter, ctlVars>>

NextDur == ComputeDuration

SpecDur == InitDur /\ [][NextDur]_vars

(* --------------------- harness: the drain variants --------------------- *)
\* the three drain loops shipped: unnamed/part_001, unnamed/part_002 and
\* copy-paste/DamageSmoothing.ts.  Amounts are numerators over Halves, so a
\* pending amount need not be a whole number of health points.
Variants == {"part_001", "part_002", "copy"}

\* mutant: one health point per tick, whatever is pending
StepOnePoint(remaining, ticksLeft) == Min2(Halves, remaining)

\* part_001 236-238 and DamageSmoothing.ts 251-253 on fractions:
\* step = Ceiling(remaining / ticksLeft), at least 1, at most remaining
StepClamped(remaining, ticksLeft) ==
  LET s0 == Halves * CeilDiv(remaining, Halves * ticksLeft)
      s1 == IF s0 < Halves THEN Halves ELSE s0
  IN IF s1 > remaining THEN remaining ELSE s1

\* part_002 97: step = mod.Max(1, mod.Ceil(remaining / ticks))
StepUnclamped(remaining, ticks) ==
  Max2(Halves, Halves * CeilDiv(remaining, Halves * ticks))

VariantStep(v, remaining, ticks) ==
  IF v = "part_002" THEN StepUnclamped(remaining, ticks)
  ELSE StepClamped(remaining, ticks)

\* the test after the step: part_001 254-256 looks at both counters,
\* part_002 105 and DamageSmoothing.ts 271-273 at the pending amount only
VariantDone(v, q, t) ==
  IF v = "part_001" THEN q <= 0 \/ t <= 0 ELSE q <= 0

\* one loop iteration of variant v for an entry e of a victim that is
\* deployed, valid and alive; last is the step dealt, 0 for none
VariantIterate(v, e) ==
  IF ~e.active THEN [e EXCEPT !.last = 0]
  ELSE IF e.q <= 0 \/ e.t <= 0 THEN [e EXCEPT !.active = FALSE, !.last = 0]
  ELSE LET amount == VariantStep(v, e.q, e.t)
           q1 == e.q - amount
           t1 == e.t - 1
       IN [q |-> q1, t |-> t1, active |-> ~VariantDone(v, q1, t1),
           last |-> amount, dealt |-> e.dealt + amount, n |-> e.n + 1]

\* a victim that has just been hit once: pending amount and window as
\* queued by the damage handler
DrainInputs ==
  {[k |-> "drain", p0 |-> p, t0 |-> t, ticks |-> 0,
    v |-> [x \in Variants |-> [q |-> p, t |-> t, active |-> TRUE,
                               last |-> 0, dealt |-> 0, n |-> 0]]] :
     p \in 1..(Halves * MaxRemaining), t \in 1..MaxSpread}

InitDrain ==
  /\ InitWorld
  /\ fn \in DrainInputs

\* one drain tick of each variant; the loops stop being run here once
\* every variant has left the entry inactive for a tick
VariantTick ==
  /\ fn.k = "drain"
  /\ \E x \in Variants : fn.v[x].active
  /\ fn' = [fn EXCEPT !.ticks = @ + 1,
                      !.v = [x \in Variants |-> VariantIterate(x, fn.v[x])]]
  /\ UNCHANGED <<hostVars, worldVars, gTickCounter, ctlVars>>

NextDrain == VariantTick

SpecDrain == InitDrain /\ [][NextDrain]_vars

(* --------------------- harness: the perf throttles --------------------- *)
\* mod.Floor of the fraction x[1] / x[2], x[2] > 0
Floor(x) == x[1] \div x[2]

\* x / d for a fraction x and an integer d > 0
Over(x, d) == <<x[1], x[2] * d>>

\* mod.Modulo(a, b), b > 0: the remainder has the sign of a
Modulo(a, b) == IF a >= 0 THEN a % b ELSE 0 - ((0 - a) % b)

\* PerfThrottles.ts 43: safe(n)
safe(n) == Max2(1, Floor(n))

\* mutant: captureLogic takes the divisor of sfx
perfMakeCadence_live(tickRate) ==
  [fast |-> safe(Over(tickRate, 10)),
   captureLogic |-> safe(Over(tickRate, 2)),
   uiScores |-> safe(Over(tickRate, 3)),
   sfx |-> safe(Over(tickRate, 2))]

\* PerfThrottles.ts 42-51
perfMakeCadence(tickRate) ==
  [fast |-> safe(Over(tickRate, 10)),
   captureLogic |-> safe(Over(tickRate, 6)),
   uiScores |-> safe(Over(tickRate, 3)),
   sfx |-> safe(Over(tickRate, 2))]

\* mutant: the interval is not clamped to 1 (a remainder by 0 is no number
\* and equals nothing)
perfEveryTicks_unclamped(tickCount, intervalTicks) ==
  LET n == Floor(intervalTicks)
  IN IF n <= 0 THEN FALSE ELSE Modulo(tickCount, n) = 0

\* PerfThrottles.ts 56-59
perfEveryTicks(tickCount, intervalTicks) ==
  LET n == Max2(1, Floor(intervalTicks))
  IN Modulo(tickCount, n) = 0

\* PerfThrottles.ts 72-76: k more iterations of the loop from cursor c (an
\* index from 0) with out collected so far
\* mutant: the cursor stops on the last item taken, not after it
SliceLoop_overlap(items, c, k, out) ==
  [slice |-> out \o [j \in 1..k |-> items[((c + j - 1) % Len(items)) + 1]],
   nextCursor |-> IF k = 0 THEN c ELSE (c + k - 1) % Len(items)]

RECURSIVE SliceLoop(_, _, _, _)
SliceLoop(items, c, k, out) ==
  IF k = 0 THEN [slice |-> out, nextCursor |-> c]
  ELSE LET c1 == c + 1
       IN SliceLoop(items, IF c1 >= Len(items) THEN 0 ELSE c1, k - 1,
                    Append(out, items[c + 1]))

\* mutant: the batch size is not clamped to 1
perfRoundRobinSlice_unclamped(items, cursor, maxPerExec) ==
  LET n == Max2(0, Floor(maxPerExec))
  IN IF Len(items) = 0 THEN [slice |-> <<>>, nextCursor |-> 0]
     ELSE SliceLoop(items, cursor, n, <<>>)

\* PerfThrottles.ts 65-79
perfRoundRobinSlice(items, cursor, maxPerExec) ==
  LET n == Max2(1, Floor(maxPerExec))
  IN IF Len(items) = 0 THEN [slice |-> <<>>, nextCursor |-> 0]
     ELSE SliceLoop(items, cursor, n, <<>>)

Buckets == {"fast", "captureLogic", "uiScores", "sfx"}
NoCadence == [b \in Buckets |-> 0]

\* finite numbers in Halves-ths from -1 to top
Fractions(top) == {<<n, Halves>> : n \in (0 - Halves)..(Halves * top)}

\* a list of len distinct items
ItemList(len) == [j \in 1..len |-> 100 + j]

\* a mode about to build its cadence and run its tick loop
PerfInputs ==
  [k : {"perf"}, rate : Fractions(MaxRate), made : {FALSE}, cad : {NoCadence},
   t : {0}, hist : {<<>>}]

\* a single call of perfEveryTicks
EveryInputs ==
  [k : {"every"}, tickCount : (0 - 3)..MaxCount, interval : Fractions(MaxInterval),
   res : {FALSE}, done : {FALSE}]

\* a list worked through in batches, from any cursor inside the list
SliceInputs ==
  {[k |-> "rr", items |-> ItemList(len), cursor |-> c, maxPerExec |-> m,
    slice |-> <<>>, nextCursor |-> c, calls |-> 0] :
     <<len, c, m>> \in {x \in (0..MaxItems) \X (0..(MaxItems - 1)) \X Fractions(MaxBatch) :
                          x[2] < Max2(1, x[1])}}

\* PerfThrottles.ts 96-104: the interval constants of the copy/paste block
\* (its TICK_RATE is 30, as TICK_RATE here)
LIVE_CAPTURE_UPDATE_INTERVAL_TICKS == Max2(1, Floor(Over(<<TICK_RATE, 1>>, 2)))
LIVE_UI_SCORE_INTERVAL_TICKS == Max2(1, Floor(Over(<<TICK_RATE, 1>>, 10)))
LIVE_SFX_INTERVAL_TICKS == Max2(1, Floor(Over(<<TICK_RATE, 1>>, 3)))

LiveGates == {"capture", "uiScore", "sfx"}

\* the gates of the live tick loop on tick count c
LiveGateTests(c) ==
  [capture |-> Modulo(c, LIVE_CAPTURE_UPDATE_INTERVAL_TICKS) = 0,
   uiScore |-> Modulo(c, LIVE_UI_SCORE_INTERVAL_TICKS) = 0,
   sfx |-> Modulo(c, LIVE_SFX_INTERVAL_TICKS) = 0]

\* a mode that gates its live updates with the LIVE_* constants;
\* phaseTickCount starts at 0
LiveInputs == [k : {"live"}, t : {0}, hist : {<<>>}]

\* a caller about to walk a non-empty list in batches of maxPerExec >= 1
\* from a cursor inside the list
CoverInputs ==
  {[k |-> "cover", items |-> ItemList(len), start |-> c, maxPerExec |-> m,
    cursor |-> c, slices |-> <<>>, cursors |-> <<>>] :
     <<len, c, m>> \in {x \in (1..MaxItems) \X (0..(MaxItems - 1)) \X Fractions(MaxBatch) :
                          x[2] < x[1] /\ x[3][1] >= x[3][2]}}

InitPerf ==
  /\ InitWorld
  /\ fn \in PerfInputs \cup EveryInputs \cup SliceInputs \cup LiveInputs \cup CoverInputs

\* const perf = perfMakeCadence(TICK_RATE)
MakeCadence ==
  /\ fn.k = "perf"
  /\ ~fn.made
  /\ fn' = [fn EXCEPT !.cad = perfMakeCadence(fn.rate), !.made = TRUE]
  /\ UNCHANGED <<hostVars, worldVars, gTickCounter, ctlVars>>

\* one tick of the mode: phaseTickCount += 1, then the test of every bucket
PerfTick ==
  /\ fn.k = "perf"
  /\ fn.made
  /\ fn.t < MaxTicks
  /\ fn' = [fn EXCEPT !.t = @ + 1,
                      !.hist = Append(@, [b \in Buckets |->
                                 perfEveryTicks(fn.t + 1, <<fn.cad[b], 1>>)])]
  /\ UNCHANGED <<hostVars, worldVars, gTickCounter, ctlVars>>

\* perfEveryTicks on the inputs drawn
EveryTicks ==
  /\ fn.k = "every"
  /\ ~fn.done
  /\ fn' = [fn EXCEPT !.res = perfEveryTicks(fn.tickCount, fn.interval),
                      !.done = TRUE]
  /\ UNCHANGED <<hostVars, worldVars, gTickCounter, ctlVars>>

\* one batch: the slice from the cursor, and the cursor moved on
RoundRobin ==
  /\ fn.k = "rr"
  /\ fn.calls < MaxCalls
  /\ LET r == perfRoundRobinSlice(fn.items, fn.nextCursor, fn.maxPerExec)
     IN fn' = [fn EXCEPT !.cursor = fn.nextCursor,
                         !.slice = r.slice,
                         !.nextCursor = r.nextCursor,
                         !.calls = @ + 1]
  /\ UNCHANGED <<hostVars, worldVars, gTickCounter, ctlVars>>

\* one tick of the live loop: phaseTickCount += 1, then the three gates
LiveTick ==
  /\ fn.k = "live"
  /\ fn.t < MaxTicks
  /\ fn' = [fn EXCEPT !.t = @ + 1,
                      !.hist = Append(@, LiveGateTests(fn.t + 1))]
  /\ UNCHANGED <<hostVars, worldVars, gTickCounter, ctlVars>>

\* const { slice, nextCursor } = perfRoundRobinSlice(items, cursor, n);
\* cursor = nextCursor
BatchedCall ==
  /\ fn.k = "cover"
  /\ Len(fn.slices) < MaxCoverCalls
  /\ LET r == perfRoundRobinSlice(fn.items, fn.cursor, fn.maxPerExec)
     IN fn' = [fn EXCEPT !.cursor = r.nextCursor,
                         !.slices = Append(@, r.slice),
                         !.cursors = Append(@, r.nextCursor)]
  /\ UNCHANGED <<hostVars, worldVars, gTickCounter, ctlVars>>

NextPerf ==
  \/ MakeCadence
  \/ PerfTick
  \/ EveryTicks
  \/ RoundRobin
  \/ LiveTick
  \/ BatchedCall

SpecPerf == InitPerf /\ [][NextPerf]_vars

(* ------------------------------- claims -------------------------------- *)
InActiveSet(p) == \E k \in 1..Len(dmgActiveIds) : dmgActiveIds[k] = p

\* the step of a DealDamage call that has not returned yet
InFlight(p) == IF pc = "dealing" /\ cur = p THEN step ELSE 0

Attackers == Players \cup {NoPlayer}

\* C1 Conservation: for every deployed victim the amount healed back so far
\* equals the amount re-applied so far plus pendingAmount (a step whose
\* DealDamage call has not returned is still part of pendingAmount), and
\* once the victim is Idle again everything healed back has been re-applied.
C1_Conservation ==
  \A p \in Players :
    (p \in serverPlayers /\ isDeployed[p]) =>
      /\ owed[p] = dmgQueued[p] - InFlight(p)
      /\ (~dmgActive[p] /\ InFlight(p) = 0) => owed[p] = 0

C1_Witness ==
  \E p \in Players :
    /\ lastOp = Op("drain", p, "returned")
    /\ isDeployed[p] /\ ~dmgActive[p]
    /\ dmgQueued[p] = 0 /\ owed[p] = 0
    /\ health[p] < dmgLastHealth[p]

\* the queue entry of v and the Heal account are what they were
QueueUntouched(v) ==
  /\ dmgQueued'[v] = dmgQueued[v]
  /\ dmgQueuedTicksLeft'[v] = dmgQueuedTicksLeft[v]
  /\ dmgQueuedGiverObjId'[v] = dmgQueuedGiverObjId[v]
  /\ dmgActive'[v] = dmgActive[v]
  /\ dmgActiveIds' = dmgActiveIds
  /\ owed' = owed

\* C2 No self/friendly smoothing: OnPlayerDamaged with the attacker equal to
\* the victim or on the victim's team leaves pendingAmount, ticksRemaining,
\* attackerRef and the active set as they were and does not call Heal.
C2_NoSelfFriendlySmoothing ==
  [][\A v \in Players, a \in Players, amt \in 1..MaxHealth, dist \in DistSet :
       (Hit(v, a, amt, dist) /\ (a = v \/ team[a] = team[v]))
         => (QueueUntouched(v) /\ health'[v] = health[v] - amt)]_vars

C2_Witness ==
  \E p \in Players :
    /\ lastOp = Op("OnPlayerDamaged", p, "sameTeam")
    /\ dmgActive[p] /\ dmgQueued[p] > 0
    /\ dmgLastHealth[p] = health[p]

\* C3 Re-entrancy safety: OnPlayerDamaged called for the victim of a
\* DealDamage call in progress, with the guard set, changes nothing but the
\* baseline, which becomes the current health (of a victim still alive).
C3_ReentrancySafe ==
  [][(NestedDamaged /\ dmgIsReapplying[cur])
       => /\ QueueUntouched(cur)
          /\ health' = health
          /\ dmgIsReapplying' = dmgIsReapplying
          /\ dmgLastHealth' = IF health[cur] > 0
                              THEN [dmgLastHealth EXCEPT ![cur] = health[cur]]
                              ELSE dmgLastHealth]_vars

C3_Witness ==
  /\ pc = "dealing"
  /\ lastOp = Op("OnPlayerDamaged", cur, "guard")
  /\ dmgIsReapplying[cur]
  /\ dmgLastHealth[cur] = health[cur]
  /\ dmgQueued[cur] > 0 /\ dmgActive[cur]

\* C4 Monotonic drain: a drain step on a victim that is not reset takes
\* exactly 1 off ticksRemaining and the step, at least 1 and at most
\* pendingAmount, off pendingAmount.
C4_MonotonicDrain ==
  [][(DealReturn /\ dmgActive[cur])
       => /\ dmgQueuedTicksLeft'[cur] = dmgQueuedTicksLeft[cur] - 1
          /\ dmgQueued'[cur] = dmgQueued[cur] - step
          /\ step >= 1 /\ step <= dmgQueued[cur]
          /\ dmgQueued'[cur] <= dmgQueued[cur]]_vars

C4_Witness ==
  \E p \in Players :
    /\ lastOp = Op("drain", p, "returned")
    /\ dmgActive[p]
    /\ dmgQueued[p] > 0 /\ dmgQueuedTicksLeft[p] > 0

\* C5 as stated: whenever a player is deactivated, pendingAmount and
\* ticksRemaining are both 0.
C5_BothZeroOnDeactivation ==
  [][\A p \in Players :
       (dmgActive[p] /\ ~dmgActive'[p])
         => (dmgQueued'[p] = 0 /\ dmgQueuedTicksLeft'[p] = 0)]_vars

\* C5 amended: whenever a player is deactivated pendingAmount is 0;
\* ticksRemaining is 0 as well after a forced reset or a lifecycle event,
\* and is 0 or more after a drain step.
C5_PendingZeroOnDeactivation ==
  [][\A p \in Players :
       (dmgActive[p] /\ ~dmgActive'[p])
         => /\ dmgQueued'[p] = 0
            /\ dmgQueuedTicksLeft'[p] >= 0
            /\ (lastOp' # Op("drain", p, "returned")
                  => dmgQueuedTicksLeft'[p] = 0)]_vars

C5_Witness ==
  \E p \in Players :
    /\ lastOp = Op("drain", p, "returned")
    /\ ~dmgActive[p]
    /\ dmgQueued[p] = 0 /\ dmgQueuedTicksLeft[p] > 0

\* C6 After every host entry point has returned, an id is in the active set
\* exactly when its pendingAmount and its ticksRemaining are both positive.
C6_ActiveIffPending ==
  pc = "idle" =>
    \A p \in Players :
      InActiveSet(p) <=> (dmgQueued[p] > 0 /\ dmgQueuedTicksLeft[p] > 0)

C6_Witness ==
  /\ pc = "idle"
  /\ lastOp = Op("OngoingGlobal", NoPlayer, "done")
  /\ \E p, r \in Players :
       /\ InActiveSet(p) /\ dmgQueued[p] > 0
       /\ ~InActiveSet(r) /\ dmgQueued[r] = 0 /\ dmgQueuedTicksLeft[r] > 0

C8_BucketedDuration ==
  (fn.k = "dur" /\ fn.done) =>
    LET den == IF fn.h[2] = 0 THEN 1 ELSE fn.h[2]
        h0 == IF fn.h[2] = 0 THEN 1 ELSE fn.h[1]
        h == Max2(0, Min2(den, h0))
        baseTicks == IF fn.dist <= 10 THEN 60 ELSE IF fn.dist <= 25 THEN 54 ELSE 48
    IN /\ fn.ticks = Max2(1, CeilDiv(baseTicks * (45 * den + 55 * h), 100 * den))
       /\ (fn.dist = 5 /\ fn.h = <<HDen, HDen>>) => fn.ticks = 60
       /\ (fn.dist = 5 /\ fn.h = <<0, HDen>>) => fn.ticks = 27
       /\ (fn.dist = 30 /\ fn.h = <<HDen, HDen>>) => fn.ticks = 48

C8_Witness ==
  /\ fn.k = "dur" /\ fn.done
  /\ fn.dist = 5 /\ fn.h = <<0, HDen>> /\ fn.ticks = 27

\* none of the short-circuits of OnPlayerDamaged fires for victim v and
\* attacker a when v's health is c
NoShortCircuit(v, a, c) ==
  /\ matchLive /\ valid[v] /\ c > 0
  /\ v \in serverPlayers /\ isDeployed[v]
  /\ ~dmgIsReapplying[v]
  /\ a # NoPlayer /\ valid[a] /\ a # v
  /\ team[a] # team[v]
  /\ dmgLastHealth[v] # Undef
  /\ dmgLastHealth[v] - c > 0

\* C9 When no short-circuit fires, OnPlayerDamaged heals the victim by
\* delta = baseline - current health, leaves the baseline at its pre-hit
\* value and returns with the victim in the active set.
C9_HealBackAndHoldBaseline ==
  [][\A v \in Players, a \in Attackers, amt \in 1..MaxHealth, dist \in DistSet :
       (Hit(v, a, amt, dist) /\ NoShortCircuit(v, a, health[v] - amt))
         => LET delta == dmgLastHealth[v] - (health[v] - amt)
            IN /\ owed'[v] = owed[v] + delta
               /\ health'[v] = (health[v] - amt) + delta
               /\ dmgLastHealth'[v] = dmgLastHealth[v]
               /\ dmgActive'[v]
               /\ InActiveSet(v)']_vars

C9_Witness ==
  \E p \in Players :
    /\ lastOp = Op("OnPlayerDamaged", p, "queued")
    /\ health[p] = dmgLastHealth[p]
    /\ owed[p] > 0
    /\ InActiveSet(p)

\* C10 Pending damage is additive: an intercepted hit of delta d on a victim
\* whose pendingAmount is q leaves pendingAmount q + d.
C10_PendingAdditive ==
  [][\A v \in Players, a \in Attackers, amt \in 1..MaxHealth, dist \in DistSet :
       (Hit(v, a, amt, dist) /\ NoShortCircuit(v, a, health[v] - amt))
         => dmgQueued'[v] = dmgQueued[v] + (dmgLastHealth[v] - (health[v] - amt))]_vars

C10_Witness ==
  \E p \in Players :
    /\ lastOp = Op("OnPlayerDamaged", p, "queued")
    /\ dmgQueued[p] >= 2
    /\ dmgQueuedTicksLeft[p] > 0

\* the duration of a hit on v by a at distance dist, after the heal-back has
\* put the health of v at hv: the base of the distance bucket (the far one
\* when the attacker is not alive), scaled by the normalized health of v
HitDuration(a, dist, hv) ==
  LET d == IF health[a] > 0 THEN dist ELSE 99999
      baseTicks == IF d <= 10 THEN 60 ELSE IF d <= 25 THEN 54 ELSE 48
  IN Max2(1, CeilDiv(baseTicks * (45 * MaxHealth + 55 * hv), 100 * MaxHealth))

\* C11 Tick overwrite: an intercepted hit sets ticksRemaining to the
\* duration computed for that hit, whatever ticksRemaining was before, also
\* when pendingAmount was already positive.
C11_TickOverwrite ==
  [][\A v \in Players, a \in Attackers, amt \in 1..MaxHealth, dist \in DistSet :
       (Hit(v, a, amt, dist) /\ NoShortCircuit(v, a, health[v] - amt))
         => dmgQueuedTicksLeft'[v] = HitDuration(a, dist, health'[v])]_vars

C11_Witness ==
  \E p \in Players :
    /\ lastOp = Op("OnPlayerDamaged", p, "queued")
    /\ dmgQueued[p] = 2
    /\ health[p] = MaxHealth
    /\ dmgQueuedTicksLeft[p] = 48

\* no registry field, engine table or Heal account changes
EngineUntouched ==
  UNCHANGED <<serverPlayers, isDeployed, spPlayer, dmgLastHealth, dmgQueued,
              dmgQueuedTicksLeft, dmgQueuedGiverObjId, dmgActive, dmgActiveIds,
              dmgIsReapplying, owed>>

\* the damage event for v arrives when the match is not live, the handle of
\* v is invalid or v is not alive (c is the health the hit left)
NotInPlay(v, c) == ~matchLive \/ ~valid[v] \/ c <= 0

\* the step is the delivery of a damage event for v that took amt from its
\* health (the label of the handler is looked at first, which Hit implies)
DamagedEvt(v, a, amt, dist) ==
  /\ lastOp'.op = "OnPlayerDamaged" /\ lastOp'.id = v
  /\ Hit(v, a, amt, dist)

\* C12 as stated: OnPlayerDamaged changes no engine state (registry records
\* and handles included) when the match is not live or the victim is
\* invalid, not alive or not deployed.
C12_NoOpWhenNotInPlay ==
  [][/\ \A v \in Players, a \in Attackers, amt \in 1..MaxHealth, dist \in DistSet :
          ( /\ NotInPlay(v, health[v] - amt) \/ v \notin serverPlayers \/ ~isDeployed[v]
            /\ DamagedEvt(v, a, amt, dist) )
            => (EngineUntouched /\ health'[v] = health[v] - amt)
     /\ \A v \in Players, a \in Attackers : HitStale(v, a) => EngineUntouched]_vars

\* C12 amended: the call changes nothing when the match is not live or the
\* victim is invalid or not alive.  For a live, valid, living victim that
\* is not deployed it changes nothing but the registry: the record of the
\* victim stores the handle passed in, and a victim without a record gets
\* one, undeployed, with the baseline seeded to its current health.  Heal
\* is not called and the queue, the active set and the guard stay as they
\* were.
C12_NoOpExceptRegistry ==
  [][/\ \A v \in Players, a \in Attackers, amt \in 1..MaxHealth, dist \in DistSet :
          ( /\ NotInPlay(v, health[v] - amt) \/ v \notin serverPlayers \/ ~isDeployed[v]
            /\ DamagedEvt(v, a, amt, dist) )
            => IF NotInPlay(v, health[v] - amt)
               THEN EngineUntouched /\ health'[v] = health[v] - amt
               ELSE /\ serverPlayers' = serverPlayers \cup {v}
                    /\ spPlayer' = [spPlayer EXCEPT ![v] = handle[v]]
                    /\ isDeployed' = isDeployed /\ ~isDeployed'[v]
                    /\ dmgLastHealth' =
                         IF v \in serverPlayers THEN dmgLastHealth
                         ELSE [dmgLastHealth EXCEPT ![v] = health[v] - amt]
                    /\ UNCHANGED <<dmgQueued, dmgQueuedTicksLeft, dmgQueuedGiverObjId,
                                   dmgActive, dmgActiveIds, dmgIsReapplying, owed>>
                    /\ health'[v] = health[v] - amt
     /\ \A v \in Players, a \in Attackers : HitStale(v, a) => EngineUntouched]_vars

C12_Witness ==
  \E p \in Players :
    /\ lastOp = Op("OnPlayerDamaged", p, "undeployed")
    /\ matchLive /\ valid[p] /\ health[p] > 0
    /\ p \in serverPlayers /\ ~isDeployed[p]
    /\ spPlayer[p] = handle[p]
    /\ dmgLastHealth[p] = health[p]
    /\ dmgQueued[p] = 0 /\ ~InActiveSet(p)

\* C13 as stated: every short-circuit of OnPlayerDamaged leaves the baseline
\* of the victim equal to its current health and leaves the queue entry and
\* the active set as they were, without a Heal call.
C13_BaselineOnEveryShortCircuit ==
  [][/\ \A v \in Players, a \in Attackers, amt \in 1..MaxHealth, dist \in DistSet :
          (~NoShortCircuit(v, a, health[v] - amt) /\ DamagedEvt(v, a, amt, dist))
            => (QueueUntouched(v) /\ dmgLastHealth'[v] = health'[v])
     /\ (NestedDamaged /\ dmgIsReapplying[cur])
          => (QueueUntouched(cur) /\ dmgLastHealth'[cur] = health'[cur])]_vars

\* C13 amended: every short-circuit leaves the queue entry and the active
\* set as they were, without a Heal call.  The short-circuits on the guard,
\* on an invalid or self attacker, on a same-team attacker, on a missing
\* baseline and on delta <= 0 set the baseline to the current health; the
\* returns for a match not live, an invalid or dead victim and an
\* undeployed victim leave the baseline as it was (a victim first seen by
\* this call has it seeded to its current health).
C13_ShortCircuitsKeepQueue ==
  [][/\ \A v \in Players, a \in Attackers, amt \in 1..MaxHealth, dist \in DistSet :
          (~NoShortCircuit(v, a, health[v] - amt) /\ DamagedEvt(v, a, amt, dist))
            => /\ QueueUntouched(v)
               /\ health'[v] = health[v] - amt
               /\ dmgLastHealth'[v] =
                    IF NotInPlay(v, health[v] - amt) THEN dmgLastHealth[v]
                    ELSE IF v \notin serverPlayers THEN health[v] - amt
                    ELSE IF ~isDeployed[v] THEN dmgLastHealth[v]
                    ELSE health[v] - amt
     /\ (NestedDamaged /\ dmgIsReapplying[cur])
          => /\ QueueUntouched(cur)
             /\ health' = health
             /\ dmgLastHealth'[cur] = IF health[cur] > 0 THEN health[cur]
                                      ELSE dmgLastHealth[cur]]_vars

\* a hit while the match is not live has left the baseline above the health
C13_Witness ==
  \E p \in Players :
    /\ lastOp = Op("OnPlayerDamaged", p, "notLive")
    /\ p \in serverPlayers /\ isDeployed[p] /\ valid[p]
    /\ health[p] > 0
    /\ dmgLastHealth[p] > health[p]

(* ------------------------------------------------------------------------ *)
\* the smoothing state of p after a lifecycle event: nothing pending, no
\* ticks, no attacker, not active
ResetAfter(p) ==
  /\ p \in serverPlayers'
  /\ dmgQueued'[p] = 0
  /\ dmgQueuedTicksLeft'[p] = 0
  /\ dmgQueuedGiverObjId'[p] = 0
  /\ ~dmgActive'[p]
  /\ \A k \in 1..Len(dmgActiveIds') : dmgActiveIds'[k] # p

\* C14: a death event or a deploy event delivered with a valid handle leaves
\* the player with pending amount 0, ticks 0, no attacker and out of the
\* active set, whatever the queue held before (the events delivered from
\* inside mod.DealDamage included); isDeployed is false after the death
\* event and true after the deploy event, and after the deploy event the
\* baseline is the current health.
C14_LifecycleResets ==
  [][\A p \in Players :
       /\ ((Died(p) \/ (NestedDied /\ cur = p)) /\ valid[p])
            => (ResetAfter(p) /\ ~isDeployed'[p])
       /\ (Deploy(p) \/ DeployedEvt(p))
            => (ResetAfter(p) /\ isDeployed'[p]
                /\ dmgLastHealth'[p] = health'[p])]_vars

\* a death event has arrived from inside mod.DealDamage for a player whose
\* queue was being drained
C14_Witness ==
  /\ pc = "dealing"
  /\ step > 0
  /\ lastOp = Op("OnPlayerDied", cur, "reset")
  /\ ~isDeployed[cur]
  /\ dmgQueued[cur] = 0
  /\ ~InActiveSet(cur)

(* ------------------------------------------------------------------------ *)
\* the caches of p, as getOrCreateServerPlayer leaves them on creation,
\* with the given baseline
SeededWith(p, baseline) ==
  /\ ~isDeployed'[p]
  /\ dmgLastHealth'[p] = baseline
  /\ dmgQueued'[p] = 0
  /\ dmgQueuedTicksLeft'[p] = 0
  /\ dmgQueuedGiverObjId'[p] = 0
  /\ ~dmgActive'[p]
  /\ ~dmgIsReapplying'[p]

\* the record and the caches of p are what they were
RecordKept(p) ==
  /\ isDeployed'[p] = isDeployed[p]
  /\ dmgLastHealth'[p] = dmgLastHealth[p]
  /\ dmgQueued'[p] = dmgQueued[p]
  /\ dmgQueuedTicksLeft'[p] = dmgQueuedTicksLeft[p]
  /\ dmgQueuedGiverObjId'[p] = dmgQueuedGiverObjId[p]
  /\ dmgActive'[p] = dmgActive[p]
  /\ dmgIsReapplying'[p] = dmgIsReapplying[p]

\* what every call of getOrCreateServerPlayer does but the seeding: p is
\* tracked afterwards with the handle passed in, an existing record keeps
\* isDeployed and its queue, other players are not touched, the active list
\* is not touched and no record is removed
GetOrCreateFrame(p) ==
  /\ OngoingPlayerEvt(p) /\ valid[p]
       => /\ serverPlayers' = serverPlayers \cup {p}
          /\ spPlayer'[p] = handle[p]
          /\ p \in serverPlayers => RecordKept(p)
          /\ \A o \in Players \ {p} : RecordKept(o) /\ spPlayer'[o] = spPlayer[o]
          /\ dmgActiveIds' = dmgActiveIds
          /\ health' = health
  /\ (Deploy(p) \/ DeployedEvt(p) \/ (Died(p) /\ valid[p]))
       => (p \in serverPlayers' /\ spPlayer'[p] = handle[p])

\* C15 as stated: a record created by getOrCreateServerPlayer has isDeployed
\* false and its baseline and queue entries zero/empty; an existing record
\* keeps isDeployed and its queue and takes the handle passed in; records
\* are never removed.
C15_SeededToZero ==
  [][/\ serverPlayers \subseteq serverPlayers'
     /\ \A p \in Players :
          /\ GetOrCreateFrame(p)
          /\ (OngoingPlayerEvt(p) /\ valid[p] /\ p \notin serverPlayers)
               => SeededWith(p, 0)]_vars

\* C15 (amended): a record created by getOrCreateServerPlayer has isDeployed
\* false, its queue entries (pending amount, ticks, attacker, active flag,
\* guard) zero/false and its baseline seeded to the player's current health;
\* an existing record keeps isDeployed, baseline and queue and takes the
\* handle passed in; there is one record per id and records are never
\* removed.
C15_SeededToCurrentHealth ==
  [][/\ serverPlayers \subseteq serverPlayers'
     /\ \A p \in Players :
          /\ GetOrCreateFrame(p)
          /\ (OngoingPlayerEvt(p) /\ valid[p] /\ p \notin serverPlayers)
               => SeededWith(p, health[p])]_vars

\* the record of a spawned player was created with the baseline at full
\* health, the host reissued the handle and the next sighting stored the new
\* handle in the record
C15_Witness ==
  /\ lastOp = Op("OngoingPlayer", 1, "existing")
  /\ 1 \in serverPlayers
  /\ handle[1] = MaxGen
  /\ spPlayer[1] = MaxGen
  /\ ~isDeployed[1]
  /\ health[1] = MaxHealth
  /\ dmgLastHealth[1] = MaxHealth

(* ------------------------------------------------------------------------ *)
\* the tracked players with a valid stored handle whose host object id is
\* the one recorded for the queue of victim id
Creditable(id) ==
  {p \in serverPlayers : /\ valid[p]
                         /\ spPlayer[p] = handle[p]
                         /\ GetObjId(p) = dmgQueuedGiverObjId[id]}

\* C16: an intercepted hit records the object id of its attacker for the
\* victim's queue; a drain step of an eligible, unexhausted entry is always
\* dealt (the victim loses the step, at least 1), with the tracked valid
\* player of the recorded object id as the attacker when there is one and
\* with no attacker otherwise; the pending amount then drops by the step and
\* the tick count by one, whoever was credited.
C16_AttackerCredit ==
  [][/\ \A v \in Players, a \in Players, amt \in 1..MaxHealth, dist \in DistSet :
          (DamagedEvt(v, a, amt, dist) /\ lastOp'.br = "queued")
            => dmgQueuedGiverObjId'[v] = GetObjId(a)
     /\ (DrainIterate /\ i <= Len(dmgActiveIds)
           /\ ~Ineligible(World, dmgActiveIds[i])
           /\ ~Exhausted(dmgQueued[dmgActiveIds[i]],
                         dmgQueuedTicksLeft[dmgActiveIds[i]]))
          => /\ pc' = "dealing"
             /\ cur' = dmgActiveIds[i]
             /\ step' >= 1
             /\ step' = DrainStepAmount(dmgQueued[cur'], dmgQueuedTicksLeft[cur'])
             /\ health'[cur'] = Max2(0, health[cur'] - step')
             /\ IF Creditable(cur') = {} THEN giver' = NoPlayer
                ELSE giver' \in Creditable(cur')
     /\ DealReturn
          => /\ dmgQueued'[cur] = dmgQueued[cur] - step
             /\ dmgQueuedTicksLeft'[cur] = dmgQueuedTicksLeft[cur] - 1]_vars

\* a step is being dealt with no attacker: the attacker of the queued hit is
\* no longer a valid player
C16_Witness ==
  /\ pc = "dealing"
  /\ step >= 1
  /\ dmgQueuedGiverObjId[cur] # 0
  /\ giver = NoPlayer
  /\ health[cur] > 0

(* ------------------------------------------------------------------------ *)
\* the step is the end of an OngoingGlobal call whose throttled cache pass
\* ran while the match was live: after a drain, or with nothing to drain
CachePassRan ==
  /\ matchLive
  /\ \/ TickEnd /\ CacheTickDue
     \/ /\ TickBegin
        /\ Len(dmgActiveIds) = 0
        /\ gTickCounter' % HEALTH_CACHE_UPDATE_EVERY_N_TICKS = 0

\* C17: a pass of dmgSpreadUpdateHealthCacheTick in a live match sets the
\* baseline of every tracked, deployed player with a valid handle and a
\* living soldier to the current health; the other baselines, every pending
\* amount, tick count and attacker, the active flags and the active list,
\* health and the registry are what they were.
C17_CacheRefreshFrame ==
  [][CachePassRan
       => /\ \A p \in Players :
               dmgLastHealth'[p] =
                 IF /\ p \in serverPlayers /\ isDeployed[p]
                    /\ valid[p] /\ spPlayer[p] = handle[p]
                    /\ health[p] > 0
                 THEN health[p] ELSE dmgLastHealth[p]
          /\ UNCHANGED <<dmgQueued, dmgQueuedTicksLeft, dmgQueuedGiverObjId,
                         dmgActive, dmgActiveIds, dmgIsReapplying, health,
                         serverPlayers, isDeployed, spPlayer>>]_vars

\* a pass has just run: the baseline of a living player with a pending
\* queue is the current health, and the baseline of a deployed player whose
\* soldier is dead was left above it
C17_Witness ==
  /\ pc = "idle"
  /\ matchLive
  /\ lastOp = Op("OngoingGlobal", NoPlayer, "done")
  /\ gTickCounter % HEALTH_CACHE_UPDATE_EVERY_N_TICKS = 0
  /\ \E p, q \in Players :
       /\ p \in serverPlayers /\ isDeployed[p] /\ valid[p] /\ health[p] > 0
       /\ dmgQueued[p] > 0
       /\ dmgLastHealth[p] = health[p]
       /\ q \in serverPlayers /\ isDeployed[q] /\ health[q] = 0
       /\ dmgLastHealth[q] > 0

(* ------------------------------------------------------------------------ *)
\* C18: for every tick rate the four intervals of perfMakeCadence are
\* max(1, floor(tickRate / divisor)) with the divisors 10, 6, 3 and 2 (the
\* floor is the integer k with k * divisor <= tickRate < (k + 1) * divisor),
\* so each is an integer >= 1; at tick rate 30 they are 3, 5, 10 and 15.
C18_MakeCadence ==
  (fn.k = "perf" /\ fn.made) =>
    LET divisor == [fast |-> 10, captureLogic |-> 6, uiScores |-> 3, sfx |-> 2]
        num == fn.rate[1]
        den == fn.rate[2]
    IN /\ \A b \in Buckets :
            LET k == fn.cad[b]
                d == divisor[b] * den
            IN /\ k \in Nat /\ k >= 1
               /\ IF num >= d THEN k * d <= num /\ num < (k + 1) * d
                  ELSE k = 1
       /\ num = 30 * den
            => fn.cad = [fast |-> 3, captureLogic |-> 5, uiScores |-> 10, sfx |-> 15]

\* the cadence of tick rate 30 has been built
C18_Witness ==
  /\ fn.k = "perf"
  /\ fn.made
  /\ fn.rate = <<30 * Halves, Halves>>
  /\ fn.cad.fast = 3
  /\ fn.cad.sfx = 15

(* ------------------------------------------------------------------------ *)
\* the number of ticks among the len ticks after tick s on which bucket b
\* fired
Fired(b, s, len) == Cardinality({j \in (s + 1)..(s + len) : fn.hist[j][b]})

\* C19: perfEveryTicks(tickCount, intervalTicks) is true exactly when
\* tickCount is a multiple of n = max(1, floor(intervalTicks)); with a
\* counter that goes up by one per tick a bucket of interval k fires exactly
\* once in any k consecutive ticks; at tick rate 30 the buckets fast,
\* captureLogic, uiScores and sfx fire 10, 6, 3 and 2 times in any 30
\* consecutive ticks, and uiScores fires on tick 30.
C19_EveryTicks ==
  /\ (fn.k = "every" /\ fn.done) =>
       LET num == fn.interval[1]
           den == fn.interval[2]
           n == IF num >= den
                THEN CHOOSE k \in 1..(MaxInterval + 1) :
                       k * den <= num /\ num < (k + 1) * den
                ELSE 1
       IN fn.res <=> \E q \in (0 - 3)..MaxCount : fn.tickCount = q * n
  /\ (fn.k = "perf" /\ fn.made) =>
       /\ \A b \in Buckets :
            \A s \in 0..(Len(fn.hist) - fn.cad[b]) : Fired(b, s, fn.cad[b]) = 1
       /\ fn.rate[1] = 30 * fn.rate[2] =>
            /\ \A s \in 0..(Len(fn.hist) - 30) :
                 /\ Fired("fast", s, 30) = 10
                 /\ Fired("captureLogic", s, 30) = 6
                 /\ Fired("uiScores", s, 30) = 3
                 /\ Fired("sfx", s, 30) = 2
            /\ Len(fn.hist) >= 30 => fn.hist[30]["uiScores"]

\* a mode at tick rate 30 has run its loop well past tick 30, and uiScores
\* fired on tick 30
C19_Witness ==
  /\ fn.k = "perf"
  /\ fn.made
  /\ fn.rate = <<30 * Halves, Halves>>
  /\ fn.t = MaxTicks
  /\ Len(fn.hist) >= 60
  /\ fn.hist[30]["uiScores"]
  /\ ~fn.hist[31]["uiScores"]

(* ------------------------------------------------------------------------ *)
\* C20: for a list of L > 0 items, a cursor in 0..L-1 and n = max(1,
\* floor(maxPerExec)), the slice of perfRoundRobinSlice has n elements, its
\* i-th element (from 0) is items[(cursor + i) mod L], and nextCursor is
\* (cursor + n) mod L; for an empty list the slice is empty and nextCursor
\* is 0.  With 5 items, cursor 4 and maxPerExec 3 the slice is items[4],
\* items[0], items[1] and nextCursor is 2.
C20_RoundRobinSlice ==
  (fn.k = "rr" /\ fn.calls > 0) =>
    LET L == Len(fn.items)
        num == fn.maxPerExec[1]
        den == fn.maxPerExec[2]
        n == IF num >= den
             THEN CHOOSE k \in 1..(MaxBatch + 1) :
                    k * den <= num /\ num < (k + 1) * den
             ELSE 1
    IN /\ L = 0 => fn.slice = <<>> /\ fn.nextCursor = 0
       /\ L > 0 =>
            /\ fn.cursor \in 0..(L - 1)
            /\ Len(fn.slice) = n
            /\ \A j \in 0..(n - 1) :
                 fn.slice[j + 1] = fn.items[((fn.cursor + j) % L) + 1]
            /\ fn.nextCursor = (fn.cursor + n) % L
       /\ (L = 5 /\ fn.cursor = 4 /\ num = 3 * den) =>
            /\ fn.slice = <<fn.items[5], fn.items[1], fn.items[2]>>
            /\ fn.nextCursor = 2

\* the example: a batch of 3 taken from cursor 4 of a list of 5 items
C20_Witness ==
  /\ fn.k = "rr"
  /\ fn.calls > 0
  /\ Len(fn.items) = 5
  /\ fn.cursor = 4
  /\ fn.maxPerExec = <<3 * Halves, Halves>>
  /\ Len(fn.slice) = 3
  /\ fn.nextCursor = 2

(* ------------------------------------------------------------------------ *)
\* the number of ticks among the len ticks after tick s on which the live
\* gate g was open
LiveFired(g, s, len) == Cardinality({j \in (s + 1)..(s + len) : fn.hist[j][g]})

\* C21 as stated: at TICK_RATE 30, in any 30 consecutive ticks of the live
\* loop the work gated by LIVE_CAPTURE_UPDATE_INTERVAL_TICKS runs about 10
\* times (9 to 11), the work gated by LIVE_UI_SCORE_INTERVAL_TICKS about 3
\* times (2 to 4) and the work gated by LIVE_SFX_INTERVAL_TICKS about 2 times
\* (1 to 3).
C21_LiveRatesAsDocumented ==
  fn.k = "live" =>
    \A s \in 0..(Len(fn.hist) - 30) :
      /\ LiveFired("capture", s, 30) \in 9..11
      /\ LiveFired("uiScore", s, 30) \in 2..4
      /\ LiveFired("sfx", s, 30) \in 1..3

\* C21, what the constants of the code give: in any 30 consecutive ticks
\* the capture gate opens 2 times, the UI gate 10 times and the SFX gate 3
\* times.
C21_LiveRatesOfCode ==
  fn.k = "live" =>
    \A s \in 0..(Len(fn.hist) - 30) :
      /\ LiveFired("capture", s, 30) = 2
      /\ LiveFired("uiScore", s, 30) = 10
      /\ LiveFired("sfx", s, 30) = 3

\* the live loop has run 30 ticks; the capture gate was open on ticks 15
\* and 30 only
C21_Witness ==
  /\ fn.k = "live"
  /\ fn.t = 30
  /\ {j \in 1..30 : fn.hist[j]["capture"]} = {15, 30}

(* ------------------------------------------------------------------------ *)
\* clamp(ceil(p / t), 1, p) for a pending amount of q Halves-ths and t
\* ticks, in Halves-ths: the ceiling is the least whole number of points c
\* with c * t >= p
ClampedCeil(q, t) ==
  LET c == CHOOSE k \in 0..(MaxRemaining + 1) :
             k * Halves * t >= q /\ (k - 1) * Halves * t < q
  IN Min2(Max2(Halves * c, Halves), q)

\* the drain tick of variant x dealt clamp(ceil(p / t), 1, p), not more than
\* what was pending, and left a pending amount that is not negative
StepWithinPending(x) ==
  (fn.v[x].active /\ fn.v[x].q > 0 /\ fn.v[x].t > 0)
    => /\ fn'.v[x].last = ClampedCeil(fn.v[x].q, fn.v[x].t)
       /\ fn'.v[x].last <= fn.v[x].q
       /\ fn'.v[x].q = fn.v[x].q - fn'.v[x].last
       /\ fn'.v[x].q >= 0

\* C22 as stated, for the drain loops the claim cites (part_001 and
\* part_002): with pending amount p > 0 and t > 0 ticks left the step dealt
\* is clamp(ceil(p / t), 1, p), never more than p, and the pending amount
\* does not go below zero.
C22_StepNeverOvershoots ==
  [][VariantTick => StepWithinPending("part_001") /\ StepWithinPending("part_002")]_vars

\* C22 for the loops that clamp the step (part_001 and DamageSmoothing.ts):
\* the step is clamp(ceil(p / t), 1, p) and the pending amount stays >= 0,
\* also for pending amounts that are not whole numbers.
C22_ClampedLoopsNeverOvershoot ==
  [][VariantTick => StepWithinPending("part_001") /\ StepWithinPending("copy")]_vars

\* half a health point was pending: part_001 dealt the half point, part_002
\* dealt a whole point and left a negative pending amount
C22_Witness ==
  /\ fn.k = "drain"
  /\ 2 * fn.p0 = Halves
  /\ fn.v["part_001"].last = fn.p0
  /\ fn.v["part_001"].q = 0
  /\ fn.v["part_002"].last = Halves
  /\ fn.v["part_002"].q < 0

(* ------------------------------------------------------------------------ *)
\* C23: a victim queued with pending amount p and T ticks that is not hit
\* again and stays deployed, valid and alive in a live match is inactive
\* after at most T drain ticks, with exactly p dealt and nothing pending;
\* a loop never leaves the entry inactive with damage still pending (part_001
\* and DamageSmoothing.ts, the loops the claim cites).
C23_BoundedDrain ==
  fn.k = "drain" =>
    \A x \in {"part_001", "copy"} :
      LET e == fn.v[x]
      IN /\ e.n <= fn.t0
         /\ e.dealt + e.q = fn.p0
         /\ e.q >= 0
         /\ ~e.active => (e.q = 0 /\ e.dealt = fn.p0)
         /\ fn.ticks >= fn.t0 => ~e.active

\* a pending amount of several points per tick has been drained in exactly
\* the T ticks of its window
C23_Witness ==
  /\ fn.k = "drain"
  /\ fn.t0 >= 2
  /\ fn.p0 > Halves * fn.t0
  /\ fn.ticks = fn.t0
  /\ fn.v["part_001"].n = fn.t0
  /\ ~fn.v["part_001"].active
  /\ fn.v["part_001"].dealt = fn.p0

(* ------------------------------------------------------------------------ *)
\* the entries of the active list a pass still has to visit: the loop runs
\* from the last index down, i is the index being visited or to visit next
ToVisit ==
  IF pc = "drain" THEN SubSeq(dmgActiveIds, 1, Min2(i, Len(dmgActiveIds)))
  ELSE IF pc = "dealing" THEN SubSeq(dmgActiveIds, 1, Min2(i - 1, Len(dmgActiveIds)))
  ELSE <<>>

\* C24: a drain pass starts with the whole active list to visit; a visit
\* takes the last entry still to visit, which always exists, off the
\* entries to visit and changes no other of them, whether the entry is
\* removed from the list (exhausted, force-reset, or reset by a death event
\* delivered inside mod.DealDamage) or stays; a visit deals damage at most
\* once and only to the visited id; the pass ends only when nothing is left
\* to visit.  No id occurs twice in the list, so every id of the list at the
\* start is visited exactly once and none is skipped.
C24_SafeIteration ==
  [][/\ \A a, b \in 1..Len(dmgActiveIds) : a # b => dmgActiveIds[a] # dmgActiveIds[b]
     /\ (pc = "idle" /\ pc' # "idle")
          => /\ dmgActiveIds' = dmgActiveIds
             /\ ToVisit' = dmgActiveIds
     /\ (pc = "drain" /\ pc' # "idle")
          => /\ i >= 1 /\ i <= Len(dmgActiveIds)
             /\ ToVisit' = SubSeq(dmgActiveIds, 1, i - 1)
             /\ IF pc' = "dealing"
                THEN /\ cur' = dmgActiveIds[i]
                     /\ \A p \in Players \ {cur'} : health'[p] = health[p]
                ELSE health' = health
     /\ pc = "dealing"
          => /\ ToVisit' = ToVisit
             /\ health' = health
     /\ (pc = "drain" /\ pc' = "idle") => ToVisit = <<>>]_vars

\* in the middle of a pass over two entries: the last entry has been
\* visited and removed from the list, the first is still to visit
C24_Witness ==
  /\ pc = "drain"
  /\ i = 1
  /\ Len(dmgActiveIds) = 1
  /\ lastOp.op = "drain"
  /\ lastOp.id \in Players \ {dmgActiveIds[1]}
  /\ ~dmgActive[lastOp.id]

(* ------------------------------------------------------------------------ *)
\* C25 as stated: the pending amount and the tick count of every player are
\* never negative, whatever the order of the handler calls, the death event
\* and the nested damage event delivered inside mod.DealDamage included.
C25_QueueNeverNegative ==
  \A p \in Players : dmgQueued[p] >= 0 /\ dmgQueuedTicksLeft[p] >= 0

\* C25, what holds in the code: the counters of an active player are
\* positive, and a counter is negative only for an inactive player whose
\* record is not deployed, after its death event arrived inside
\* mod.DealDamage: then the pending amount is minus the step that killed it
\* and the tick count is -1.
C25_NegativeOnlyAfterNestedDeath ==
  \A p \in Players :
    /\ (dmgActive[p] /\ ~(pc = "dealing" /\ cur = p))
         => (dmgQueued[p] > 0 /\ dmgQueuedTicksLeft[p] > 0)
    /\ (dmgQueued[p] < 0 \/ dmgQueuedTicksLeft[p] < 0)
         => /\ ~dmgActive[p] /\ ~isDeployed[p]
            /\ dmgQueuedTicksLeft[p] = 0 - 1
            /\ dmgQueued[p] \in (0 - MaxPending)..(0 - 1)

\* a drain step killed the victim, its death event arrived before
\* mod.DealDamage returned, and the loop then took the step off the cleared
\* queue
C25_Witness ==
  \E p \in Players :
    /\ lastOp = Op("drain", p, "returned")
    /\ health[p] = 0
    /\ dmgQueued[p] < 0
    /\ dmgQueuedTicksLeft[p] < 0

(* ------------------------------------------------------------------------ *)
\* the step ends an OngoingGlobal call
TickReturns == pc' = "idle" /\ (TickBegin \/ TickEnd)

\* the baseline the refresh pass gives p from the health table hl, the
\* baseline p had otherwise
RefreshedBaseline(p, hl) ==
  IF /\ p \in serverPlayers /\ isDeployed[p]
     /\ valid[p] /\ spPlayer[p] = handle[p]
     /\ hl[p] > 0
  THEN hl[p] ELSE dmgLastHealth[p]

\* C26: an OngoingGlobal call adds exactly one to the tick counter (kept
\* modulo TickWrap here) and no other step changes it; the call starts one
\* drain pass over the whole active list when the match is live; the cache
\* refresh happens only at the end of the call, after the drain pass, and
\* only when the counter is a multiple of HEALTH_CACHE_UPDATE_EVERY_N_TICKS
\* (2): it then stores the health left after this tick's drain steps.  The
\* loop itself writes no baseline, and a call that ends on another tick
\* count leaves every baseline as it was.
C26_TickScheduling ==
  [][/\ HEALTH_CACHE_UPDATE_EVERY_N_TICKS = 2
     /\ IF TickBegin THEN gTickCounter' = (gTickCounter + 1) % TickWrap
        ELSE gTickCounter' = gTickCounter
     /\ TickBegin
          => IF matchLive /\ Len(dmgActiveIds) > 0
             THEN pc' = "drain" /\ i' = Len(dmgActiveIds)
                  /\ dmgLastHealth' = dmgLastHealth /\ health' = health
             ELSE pc' = "idle"
     /\ (DrainIterate \/ DealReturn) => dmgLastHealth' = dmgLastHealth
     /\ TickReturns
          => /\ health' = health
             /\ IF matchLive /\ gTickCounter' % 2 = 0
                THEN \A p \in Players : dmgLastHealth'[p] = RefreshedBaseline(p, health)
                ELSE dmgLastHealth' = dmgLastHealth]_vars

\* a tick on an even count has drained one point of a pending amount of two
\* and then refreshed the baseline: it is the health after the step, and the
\* rest is still pending
C26_Witness ==
  /\ pc = "idle"
  /\ matchLive
  /\ lastOp = Op("OngoingGlobal", NoPlayer, "done")
  /\ gTickCounter % HEALTH_CACHE_UPDATE_EVERY_N_TICKS = 0
  /\ \E p \in Players :
       /\ dmgActive[p] /\ dmgQueued[p] = 1
       /\ dmgQueuedTicksLeft[p] < 48
       /\ health[p] = MaxHealth - 1
       /\ dmgLastHealth[p] = health[p]

(* ------------------------------------------------------------------------ *)
\* C27: in every reachable state the active flag of an id is set exactly
\* when the id is in the active-id list, the list holds player ids only and
\* holds no id twice.
C27_ActiveSetConsistent ==
  /\ \A p \in Players :
       dmgActive[p] <=> \E k \in 1..Len(dmgActiveIds) : dmgActiveIds[k] = p
  /\ \A k \in 1..Len(dmgActiveIds) : dmgActiveIds[k] \in Players
  /\ \A a, b \in 1..Len(dmgActiveIds) : a # b => dmgActiveIds[a] # dmgActiveIds[b]

\* both players are being smoothed, one of them after a second intercepted
\* hit on an entry that was already active
C27_Witness ==
  /\ Len(dmgActiveIds) = 2
  /\ dmgActive[1] /\ dmgActive[2]
  /\ \E p \in Players : dmgQueued[p] = 2

(* ------------------------------------------------------------------------ *)
\* C28: the guard flag of an id is set exactly while a mod.DealDamage call
\* issued by the drain for that id is in progress, and is clear for every id
\* when no such call is in progress; a damage event is taken for the
\* engine's own reapplication only inside such a call and only for its
\* victim, never between ticks.
C28_GuardDiscipline ==
  /\ \A p \in Players : dmgIsReapplying[p] <=> (pc = "dealing" /\ cur = p)
  /\ (lastOp.op = "OnPlayerDamaged" /\ lastOp.br = "guard")
       => (pc = "dealing" /\ lastOp.id = cur)

\* a step is being dealt to one of two active players: the guard is set for
\* that player only
C28_Witness ==
  /\ pc = "dealing"
  /\ Len(dmgActiveIds) = 2
  /\ dmgIsReapplying[cur]
  /\ \A p \in Players \ {cur} : dmgActive[p] /\ ~dmgIsReapplying[p]

(* ------------------------------------------------------------------------ *)
\* the queue entry, the active flag and the baseline of p are what they were
EntryFrozen(p) ==
  /\ dmgQueued'[p] = dmgQueued[p]
  /\ dmgQueuedTicksLeft'[p] = dmgQueuedTicksLeft[p]
  /\ dmgQueuedGiverObjId'[p] = dmgQueuedGiverObjId[p]
  /\ dmgActive'[p] = dmgActive[p]

\* C29: while the match is not live an OngoingGlobal call deals no damage
\* and changes no baseline, pending amount, tick count, attacker or
\* active-set membership (it only counts the tick); and no step taken while
\* the match is not live changes the queue entry or the activity of a
\* player, except a deploy or death event of that player: a player that is
\* Smoothing when the match stops being live stays so, with the same
\* pending amount and tick count.
C29_NotLiveFreeze ==
  [][~matchLive
       => /\ pc = "idle" /\ pc' = "idle"
          /\ TickBegin
               => /\ health' = health
                  /\ dmgLastHealth' = dmgLastHealth
                  /\ dmgActiveIds' = dmgActiveIds
                  /\ \A p \in Players : EntryFrozen(p)
          /\ \A p \in Players :
               \/ EntryFrozen(p) /\ (InActiveSet(p) => \E k \in 1..Len(dmgActiveIds') : dmgActiveIds'[k] = p)
               \/ Deploy(p) \/ DeployedEvt(p) \/ Died(p)]_vars

\* the match has been switched to not live, ticks have been counted, nothing
\* has changed the world since the switch, and a player is still Smoothing
\* with its pending amount and tick count
C29_Witness ==
  /\ ~matchLive
  /\ pc = "idle"
  /\ lastOp = HostOp
  /\ gTickCounter > 0
  /\ \E p \in Players :
       /\ dmgActive[p] /\ InActiveSet(p)
       /\ dmgQueued[p] > 0 /\ dmgQueuedTicksLeft[p] > 0

(* ------------------------------------------------------------------------ *)
\* the items of the slices of calls a .. b of the batched caller
Served(a, b) == {fn.slices[j][x] : <<j, x>> \in {y \in (a..b) \X (1..MaxBatch) : y[2] <= Len(fn.slices[y[1]])}}

\* C30: a caller that walks a non-empty list of length L from a cursor in
\* [0, L), passing each nextCursor to the next call with the same
\* maxPerExec >= 1, gets a nextCursor in [0, L) from every call, and any
\* ceil(L / n) consecutive calls serve every item of the list, n being the
\* batch size max(1, floor(maxPerExec)), which is maxPerExec itself when
\* that is a whole number.
C30_RoundRobinCoverage ==
  fn.k = "cover"
    => LET L == Len(fn.items)
           n == Max2(1, Floor(fn.maxPerExec))
           window == CeilDiv(L, n)
       IN /\ \A j \in 1..Len(fn.cursors) : fn.cursors[j] \in 0..(L - 1)
          /\ \A a \in 1..Len(fn.slices) :
               a + window - 1 <= Len(fn.slices)
                 => Served(a, a + window - 1) = {fn.items[x] : x \in 1..L}

\* a list of five items walked in batches of two from the middle: three
\* calls made, the second of which wrapped, and all five items served
C30_Witness ==
  /\ fn.k = "cover"
  /\ Len(fn.items) = 5 /\ fn.start = 2 /\ fn.maxPerExec = <<2 * Halves, Halves>>
  /\ Len(fn.slices) = 3
  /\ fn.cursors = <<4, 1, 3>>
  /\ Served(1, 3) = {fn.items[x] : x \in 1..5}

(* ------------------------------------------------------------------------ *)
\* variants x and y have dealt the same step on every tick so far, hold the
\* same pending amount and tick count, and are active or inactive together
SameDrain(x, y) ==
  /\ fn.v[x].last = fn.v[y].last
  /\ fn.v[x].active = fn.v[y].active
  /\ fn.v[x].q = fn.v[y].q
  /\ fn.v[x].t = fn.v[y].t
  /\ fn.v[x].dealt = fn.v[y].dealt
  /\ fn.v[x].n = fn.v[y].n

\* C31 as stated: for every pending amount >= 1 and every tick count >= 1,
\* with a victim that stays deployed, valid and alive and is not hit again,
\* the three drain loops deal the same step on every tick, deactivate the
\* victim on the same tick and end with the same pending amount.
C31_VariantsEquivalent ==
  (fn.k = "drain" /\ fn.p0 >= Halves)
    => \A x, y \in Variants :
         /\ fn.v[x].last = fn.v[y].last
         /\ fn.v[x].active = fn.v[y].active
         /\ (~fn.v[x].active /\ ~fn.v[y].active) => fn.v[x].q = fn.v[y].q

\* C31 as far as the code goes: the three loops agree in every respect when
\* the pending amount is a whole number of health points >= 1; for any
\* pending amount >= 1 the loops of part_001 and DamageSmoothing.ts agree in
\* every respect, and the loop of part_002 deactivates the victim on the
\* same tick as they do, having dealt less than one point more than they.
C31_EquivalentOnWholeAmounts ==
  (fn.k = "drain" /\ fn.p0 >= Halves)
    => /\ SameDrain("part_001", "copy")
       /\ fn.v["part_002"].active = fn.v["part_001"].active
       /\ fn.v["part_002"].n = fn.v["part_001"].n
       /\ fn.v["part_002"].dealt >= fn.v["part_001"].dealt
       /\ fn.v["part_002"].dealt < fn.v["part_001"].dealt + Halves
       /\ fn.p0 % Halves = 0 => SameDrain("part_002", "part_001")

\* five points over three ticks: every loop has dealt 2, 2 and 1 and has
\* just deactivated the victim with nothing pending
C31_Witness ==
  /\ fn.k = "drain"
  /\ fn.p0 = 5 * Halves /\ fn.t0 = 3
  /\ fn.ticks = 3
  /\ \A x \in Variants :
       /\ ~fn.v[x].active
       /\ fn.v[x].n = 3
       /\ fn.v[x].last = Halves
       /\ fn.v[x].dealt = fn.p0
       /\ fn.v[x].q = 0

====
